---- MODULE Spec2Model ----
(***************************************************************************)
(* Model of scripts/alignment.py: the alignment of two per-second pose     *)
(* keypoint tables by horizontal head progress.                            *)
(*                                                                         *)
(* Floats are modelled as exact rationals [n, d] in lowest terms with      *)
(* d > 0; NaN is [n |-> 0, d |-> 0] and +inf is [n |-> 1, d |-> 0].         *)
(* Optional values (Python None) are <<>>, a present value v is <<v>>.     *)
(* ret holds what read_pose_csv returns or raises when it is called alone. *)
(* The helpers of the web application (services/dynamodb.py,               *)
(* auth/cognito.py, api_routes.py) and the extractor scripts/skeletal.py   *)
(* are modelled on env (the store, mock or frames a call runs against),    *)
(* calls (the requests issued so far), req (the arguments of the call) and *)
(* procs (the position and locals of each concurrent request).             *)
(***************************************************************************)
EXTENDS Integers, Sequences, FiniteSets, TLC

VARIABLES pc, args, df1, df2, out_dir, steps, wide1, wide2, hx1, hx2, pr1, pr2,
          chosen1, chosen2, kp_names, rows, out_file, err, ret,
          env, calls, req, procs

vars == <<pc, args, df1, df2, out_dir, steps, wide1, wide2, hx1, hx2, pr1, pr2,
          chosen1, chosen2, kp_names, rows, out_file, err, ret,
          env, calls, req, procs>>

\* the variables of the web application's helpers, which the alignment
\* script never touches
svc == <<env, calls, req, procs>>

(***************************************************************************)
(* Bounds of the model.                                                    *)
(***************************************************************************)
\* most user ids a call of batch_get_users is given in SpecBatch
MaxIds == 250

\* concurrent requests of SpecTeams
MaxRequests == 2

\* frames of the video that SpecExtract reads
MaxFrames == 3

\* most pages a paginated query or scan of SpecPages has
MaxPages == 3

\* largest numerator of --step, in hundredths, that SpecSteps draws
MaxStepNum == 104

\* most seconds of one source table
MaxSec == 3

\* largest x coordinate that SpecHead and SpecProgress draw
MaxX == 2

(***************************************************************************)
(* Float arithmetic, as exact rationals with NaN and +inf.                 *)
(***************************************************************************)
Abs(i) == IF i < 0 THEN -i ELSE i

RECURSIVE Gcd(_, _)
Gcd(a, b) == IF b = 0 THEN a ELSE Gcd(b, a % b)

NaN == [n |-> 0, d |-> 0]

Inf == [n |-> 1, d |-> 0]

\* the float n/d (0/0 is NaN, as in numpy)
Rat(n, d) ==
    IF d = 0 THEN (IF n = 0 THEN NaN ELSE Inf)
    ELSE LET g == Gcd(Abs(n), Abs(d))
             s == IF d < 0 THEN -1 ELSE 1
         IN  [n |-> (s * n) \div g, d |-> (s * d) \div g]

IsNaN(a) == a.d = 0 /\ a.n = 0

IsInf(a) == a.d = 0 /\ a.n # 0

\* a + b, a - b, a * b, a / b: NaN in, NaN out
RAdd(a, b) ==
    IF IsNaN(a) \/ IsNaN(b) THEN NaN
    ELSE IF IsInf(a) \/ IsInf(b) THEN Inf
    ELSE Rat(a.n * b.d + b.n * a.d, a.d * b.d)

RSub(a, b) ==
    IF IsNaN(a) \/ IsNaN(b) THEN NaN
    ELSE Rat(a.n * b.d - b.n * a.d, a.d * b.d)

RMul(a, b) ==
    IF IsNaN(a) \/ IsNaN(b) THEN NaN
    ELSE Rat(a.n * b.n, a.d * b.d)

RDiv(a, b) ==
    IF IsNaN(a) \/ IsNaN(b) THEN NaN
    ELSE IF b.n = 0 THEN NaN
    ELSE Rat(a.n * b.d, a.d * b.n)

RAbs(a) == [n |-> Abs(a.n), d |-> a.d]

\* a <= b and a < b; every comparison with NaN is false
RLe(a, b) ==
    IF IsNaN(a) \/ IsNaN(b) THEN FALSE
    ELSE IF IsInf(b) THEN TRUE
    ELSE IF IsInf(a) THEN FALSE
    ELSE a.n * b.d <= b.n * a.d

RLt(a, b) ==
    IF IsNaN(a) \/ IsNaN(b) THEN FALSE
    ELSE IF IsInf(a) THEN FALSE
    ELSE IF IsInf(b) THEN TRUE
    ELSE a.n * b.d < b.n * a.d

Zero == Rat(0, 1)

One == Rat(1, 1)

None == <<>>

Some(v) == <<v>>

\* Python round() of the positive rational n/d to an integer: half to even
RoundHalfEven(n, d) ==
    LET q == n \div d
        r == n % d
    IN  IF 2 * r < d THEN q
        ELSE IF 2 * r > d THEN q + 1
        ELSE IF q % 2 = 0 THEN q ELSE q + 1

\* round(v, 10): a value with at most nine decimals is its own rounding to
\* ten decimals; the model draws no other step
Round10(v) == CASE v.d # 0 /\ 1000000000 % v.d = 0 -> v

\* sorted(set(...)) of a set of finite rationals: ascending, no repeats
RECURSIVE SortedOf(_)
SortedOf(S) ==
    IF S = {} THEN <<>>
    ELSE LET m == CHOOSE x \in S : \A y \in S : RLe(x, y)
         IN  <<m>> \o SortedOf(S \ {m})

Range(s) == {s[i] : i \in DOMAIN s}

(***************************************************************************)
(* main, lines 210-217: the checkpoint list.                               *)
(***************************************************************************)
StepValid(step) == ~(RLe(step, Zero) \/ RLt(One, step))

\* n_steps = int(round(1.0 / args.step))
NSteps(step) == RoundHalfEven(step.d, step.n)

\* steps = [round(i * step, 10) for i in range(n_steps + 1)]; 1.0 appended
\* when the last one is not 1.0; then sorted(set(steps))
BuildSteps(step) ==
    LET n    == NSteps(step)
        raw  == [i \in 1..(n + 1) |-> Round10(RMul(Rat(i - 1, 1), step))]
        full == IF raw[n + 1] # One THEN Append(raw, One) ELSE raw
    IN  SortedOf(Range(full))

(***************************************************************************)
(* read_pose_csv and to_wide_per_second.  A long table is                  *)
(* [columns, rows]; a row is [second, keypoint_name, x, y,                 *)
(* keypoint_confidence].  person_index, detection_confidence and           *)
(* keypoint_index are columns of the table (Required) whose values the     *)
(* script copies into the wide table at most and never reads again; rows   *)
(* do not carry them.  Seconds are integers, as the exporter writes them.  *)
(***************************************************************************)
Required == {"second", "person_index", "detection_confidence", "keypoint_index",
             "keypoint_name", "x", "y", "keypoint_confidence"}

\* MissingColumns holding every column in which the table and Required differ
MissingColumnsExact(df) == (Required \ df.columns) \cup (df.columns \ Required)

\* read_pose_csv: the set of missing required columns; raises when not empty
MissingColumns(df) == Required \ df.columns

\* the column names in the order sorted() gives them
ColumnOrder == <<"detection_confidence", "frame", "keypoint_confidence",
                 "keypoint_index", "keypoint_name", "person_index", "second",
                 "x", "y">>

\* read_pose_csv on the table pd.read_csv has parsed: the ValueError naming
\* sorted(missing), or the table itself
read_pose_csv(df) ==
    LET missing == MissingColumns(df)
    IN  IF missing # {}
        THEN [raised |-> TRUE,
              missing |-> SelectSeq(ColumnOrder, LAMBDA c : c \in missing),
              df |-> <<>>]
        ELSE [raised |-> FALSE, missing |-> <<>>, df |-> <<df>>]

NaNCell == [x |-> NaN, y |-> NaN, conf |-> NaN]

\* SortedInts from the largest to the smallest
RECURSIVE SortedIntsDesc(_)
SortedIntsDesc(S) ==
    IF S = {} THEN <<>>
    ELSE LET m == CHOOSE x \in S : \A y \in S : y <= x
         IN  <<m>> \o SortedIntsDesc(S \ {m})

\* wide.sort_values("second") on the index the pivots produce
RECURSIVE SortedInts(_)
SortedInts(S) ==
    IF S = {} THEN <<>>
    ELSE LET m == CHOOSE x \in S : \A y \in S : x <= y
         IN  <<m>> \o SortedInts(S \ {m})

\* df.pivot raises on a repeated (second, keypoint_name)
HasDuplicates(df) ==
    \E i, j \in DOMAIN df.rows :
        /\ i < j
        /\ df.rows[i].second = df.rows[j].second
        /\ df.rows[i].keypoint_name = df.rows[j].keypoint_name

CellOf(df, sec, kp) ==
    IF \E i \in DOMAIN df.rows :
           df.rows[i].second = sec /\ df.rows[i].keypoint_name = kp
    THEN LET i == CHOOSE i \in DOMAIN df.rows :
                      df.rows[i].second = sec /\ df.rows[i].keypoint_name = kp
         IN  [x |-> df.rows[i].x, y |-> df.rows[i].y,
              conf |-> df.rows[i].keypoint_confidence]
    ELSE NaNCell

\* one row per distinct second, ascending; one x, y, conf cell per keypoint
\* name of the table
to_wide_per_second(df) ==
    IF HasDuplicates(df) THEN [raised |-> TRUE, kps |-> {}, rows |-> <<>>]
    ELSE LET kps  == {df.rows[i].keypoint_name : i \in DOMAIN df.rows}
             secs == SortedInts({df.rows[i].second : i \in DOMAIN df.rows})
         IN  [raised |-> FALSE,
              kps    |-> kps,
              rows   |-> [t \in DOMAIN secs |->
                            [second |-> secs[t],
                             kp |-> [k \in kps |-> CellOf(df, secs[t], k)]]]]

(***************************************************************************)
(* head_x_series                                                           *)
(***************************************************************************)
Methods == {"conf_weighted_avg", "simple_avg", "nose"}

RECURSIVE SumSeq(_)
SumSeq(s) == IF s = <<>> THEN Zero ELSE RAdd(Head(s), SumSeq(Tail(s)))

\* np.nansum: NaN terms count as zero
NanSum(s) == SumSeq([i \in DOMAIN s |-> IF IsNaN(s[i]) THEN Zero ELSE s[i]])

\* np.nanmean replaced by the sum of the kept terms over the count of all terms
NanMeanOverAll(s) ==
    LET kept == SelectSeq(s, LAMBDA v : ~IsNaN(v))
    IN  IF kept = <<>> THEN NaN ELSE RDiv(SumSeq(kept), Rat(Len(s), 1))

\* np.nanmean: the mean of the terms that are not NaN, NaN when there is none
NanMean(s) ==
    LET kept == SelectSeq(s, LAMBDA v : ~IsNaN(v))
    IN  IF kept = <<>> THEN NaN ELSE RDiv(SumSeq(kept), Rat(Len(kept), 1))

\* the denominator of conf_weighted_avg: den = np.sum(W, axis=0)
WeightDen(W) == SumSeq(W)

\* one second of conf_weighted_avg / simple_avg over the head keypoints that
\* have columns (present), lines 107-120
HeadXAt(row, present, kp_conf_thres, method) ==
    LET X    == [i \in DOMAIN present |-> row.kp[present[i]].x]
        C    == [i \in DOMAIN present |-> row.kp[present[i]].conf]
        mask == [i \in DOMAIN present |-> RLe(kp_conf_thres, C[i])]
        Xm   == [i \in DOMAIN present |-> IF mask[i] THEN X[i] ELSE NaN]
        W    == [i \in DOMAIN present |-> IF mask[i] THEN C[i] ELSE Zero]
        num  == NanSum([i \in DOMAIN present |-> RMul(X[i], W[i])])
        den  == WeightDen(W)
    IN  IF method = "simple_avg" THEN NanMean(Xm)
        ELSE IF RLt(Zero, den) THEN RDiv(num, den) ELSE NaN

\* method "nose", lines 88-94
NoseAt(row, kp_conf_thres) ==
    IF RLe(kp_conf_thres, row.kp["nose"].conf) THEN row.kp["nose"].x ELSE NaN

\* head_x_series whose method "nose" reads the nose only when it is configured
head_x_series_NoseConfigured(wide, head_kps, kp_conf_thres, method) ==
    IF method \notin Methods THEN [raised |-> TRUE, out |-> <<>>]
    ELSE IF method = "nose"
    THEN [raised |-> FALSE,
          out |-> [t \in DOMAIN wide.rows |->
                     IF "nose" \notin wide.kps \/ "nose" \notin Range(head_kps)
                     THEN NaN
                     ELSE NoseAt(wide.rows[t], kp_conf_thres)]]
    ELSE LET present == SelectSeq(head_kps, LAMBDA k : k \in wide.kps)
         IN  [raised |-> FALSE,
              out |-> [t \in DOMAIN wide.rows |->
                         IF present = <<>> THEN NaN
                         ELSE HeadXAt(wide.rows[t], present, kp_conf_thres, method)]]

head_x_series(wide, head_kps, kp_conf_thres, method) ==
    IF method \notin Methods THEN [raised |-> TRUE, out |-> <<>>]
    ELSE IF method = "nose"
    THEN [raised |-> FALSE,
          out |-> [t \in DOMAIN wide.rows |->
                     IF "nose" \notin wide.kps THEN NaN
                     ELSE NoseAt(wide.rows[t], kp_conf_thres)]]
    ELSE LET present == SelectSeq(head_kps, LAMBDA k : k \in wide.kps)
         IN  [raised |-> FALSE,
              out |-> [t \in DOMAIN wide.rows |->
                         IF present = <<>> THEN NaN
                         ELSE HeadXAt(wide.rows[t], present, kp_conf_thres, method)]]

(***************************************************************************)
(* progress_between_extremes                                               *)
(***************************************************************************)
\* np.isclose(a, b): |a - b| <= 1e-8 + 1e-5 * |b|, for finite a and b
IsClose(a, b) ==
    LET L == Abs(a.n * b.d - b.n * a.d)
        R == a.d * b.d + 1000 * Abs(b.n) * a.d
    IN  L <= R \div 100000000

RMin(S) == CHOOSE x \in S : \A y \in S : RLe(x, y)

RMax(S) == CHOOSE x \in S : \A y \in S : RLe(y, x)

\* ProgressOf dividing by x_max instead of the range
ProgressOfByMax(h, x_min, x_max) == RDiv(RSub(h, x_min), x_max)

\* p = (head_x - x_min) / (x_max - x_min)
ProgressOf(h, x_min, x_max) == RDiv(RSub(h, x_min), RSub(x_max, x_min))

\* Degenerate testing for an inverted range only
DegenerateIfInverted(x_min, x_max) == RLt(x_max, x_min)

\* the range is ~0: np.isclose(x_max, x_min)
Degenerate(x_min, x_max) == IsClose(x_max, x_min)

progress_between_extremes(head_x) ==
    LET valid == {head_x[i] : i \in {j \in DOMAIN head_x : ~IsNaN(head_x[j])}}
    IN  IF valid = {}
        THEN [raised |-> "no_valid_head_x", p |-> <<>>, x_min |-> NaN, x_max |-> NaN]
        ELSE LET x_min == RMin(valid)
                 x_max == RMax(valid)
             IN  IF Degenerate(x_min, x_max)
                 THEN [raised |-> "range_zero", p |-> <<>>,
                       x_min |-> x_min, x_max |-> x_max]
                 ELSE [raised |-> "",
                       p |-> [i \in DOMAIN head_x |->
                                ProgressOf(head_x[i], x_min, x_max)],
                       x_min |-> x_min, x_max |-> x_max]

(***************************************************************************)
(* choose_seconds_for_steps                                                *)
(***************************************************************************)
\* Diffs without the absolute value
DiffsSigned(p, s) ==
    [i \in DOMAIN p |->
        LET dv == RSub(p[i], s) IN IF IsNaN(dv) THEN Inf ELSE dv]

\* diffs = np.abs(p - s), NaN replaced by inf
Diffs(p, s) ==
    [i \in DOMAIN p |->
        LET dv == RAbs(RSub(p[i], s)) IN IF IsNaN(dv) THEN Inf ELSE dv]

\* Better taking a later equal candidate too: the last least value
BetterOrEqual(dv, best) == RLe(dv, best)

\* whether candidate dv replaces the best so far in the scan of np.argmin
Better(dv, best) == RLt(dv, best)

\* np.argmin: the first index of the least value (1-based here)
RECURSIVE ArgMinFrom(_, _, _)
ArgMinFrom(diffs, i, best) ==
    IF i > Len(diffs) THEN best
    ELSE ArgMinFrom(diffs, i + 1, IF Better(diffs[i], diffs[best]) THEN i ELSE best)

\* ArgMin returning the last index of the least value
ArgMinLast(diffs) ==
    CHOOSE j \in DOMAIN diffs :
        \A i \in DOMAIN diffs :
            /\ RLe(diffs[j], diffs[i])
            /\ (RLe(diffs[i], diffs[j]) => i <= j)

ArgMin(diffs) == ArgMinFrom(diffs, 2, 1)

\* Accept with the comparison turned round
AcceptFar(dv, tolerance) == RLe(tolerance, dv)

\* Accept with a strict comparison
AcceptStrict(dv, tolerance) == RLt(dv, tolerance)

\* if diffs[j] <= tolerance
Accept(dv, tolerance) == RLe(dv, tolerance)

\* ChooseOne without the tolerance test
ChooseOneAlways(wide, p, s, tolerance) ==
    LET diffs == Diffs(p, s)
        j     == ArgMin(diffs)
    IN  Some(wide.rows[j].second)

ChooseOne(wide, p, s, tolerance) ==
    LET diffs == Diffs(p, s)
        j     == ArgMin(diffs)
    IN  IF Accept(diffs[j], tolerance) THEN Some(wide.rows[j].second) ELSE None

\* np.argmin raises on an empty series
choose_seconds_for_steps(wide, p, stepList, tolerance) ==
    IF p = <<>> /\ stepList # <<>>
    THEN [raised |-> TRUE, chosen |-> <<>>]
    ELSE [raised |-> FALSE,
          chosen |-> [s \in Range(stepList) |-> ChooseOne(wide, p, s, tolerance)]]

(***************************************************************************)
(* main, lines 236-291: the common keypoints and the output rows.          *)
(***************************************************************************)
\* the keypoint names of the model, in sorted() order
AlphaOrder == <<"left_eye", "left_hip", "nose">>

KpNamesOf(df) == {df.rows[i].keypoint_name : i \in DOMAIN df.rows}

\* CommonKps taking the union
CommonKpsUnion(a, b) == KpNamesOf(a) \cup KpNamesOf(b)

\* kp_names = sorted(kp_set1.intersection(kp_set2))
CommonKps(a, b) == KpNamesOf(a) \cap KpNamesOf(b)

SortedNames(S) == SelectSeq(AlphaOrder, LAMBDA k : k \in S)

\* the orders in which iterating the set S of strings can yield its elements:
\* string hashing is seeded per process
IterOrders(S) == {o \in [1..Cardinality(S) -> S] : Range(o) = S}

\* Sorted leaving the names in the order of the iteration
SortedAsIterated(order) == order

\* sorted(iterable)
Sorted(order) == SortedNames(Range(order))

\* KpAt filling an unmatched checkpoint with zeros
KpAtZeroFill(df, sec, kp) ==
    IF sec = None THEN [x |-> Zero, y |-> Zero, conf |-> Zero]
    ELSE CellOf(df, sec[1], kp)

\* extract_keypoints_at_second(df, sec) reindexed on kp_names, at one name;
\* the all-NaN frame when the checkpoint is unmatched (lines 249-258)
KpAt(df, sec, kp) == IF sec = None THEN NaNCell ELSE CellOf(df, sec[1], kp)

\* lines 261-266: float(size and hx.loc[index of the second])
HeadXAtSecond(wide, hx, sec) ==
    IF sec = None THEN NaN
    ELSE LET idx == {t \in DOMAIN wide.rows : wide.rows[t].second = sec[1]}
         IN  IF idx = {} THEN Zero
             ELSE hx[CHOOSE t \in idx : \A u \in idx : t <= u]

\* the fields of one source in the output row of checkpoint s, keypoint kp
SideFields(df, wide, hx, pr, chosen, s, kp) ==
    LET sec  == chosen[s]
        cell == KpAt(df, sec, kp)
    IN  [second  |-> sec,
         head_x  |-> HeadXAtSecond(wide, hx, sec),
         xmin    |-> pr.x_min,
         xmax    |-> pr.x_max,
         kp      |-> kp,
         x       |-> cell.x,
         y       |-> cell.y,
         kp_conf |-> cell.conf]

RECURSIVE Flatten(_)
Flatten(ss) == IF ss = <<>> THEN <<>> ELSE Head(ss) \o Flatten(Tail(ss))

\* RowsOfStep skipping a checkpoint that one source did not match
RowsOfStepMatchedOnly(s, names, d1, w1, h1, p1, c1, d2, w2, h2, p2, c2) ==
    IF c1[s] = None \/ c2[s] = None THEN <<>>
    ELSE [i \in DOMAIN names |->
            [progress_step |-> s,
             file1 |-> SideFields(d1, w1, h1, p1, c1, s, names[i]),
             file2 |-> SideFields(d2, w2, h2, p2, c2, s, names[i])]]

\* the rows appended for one checkpoint: one per common keypoint (268-291)
RowsOfStep(s, names, d1, w1, h1, p1, c1, d2, w2, h2, p2, c2) ==
    [i \in DOMAIN names |->
        [progress_step |-> s,
         file1 |-> SideFields(d1, w1, h1, p1, c1, s, names[i]),
         file2 |-> SideFields(d2, w2, h2, p2, c2, s, names[i])]]

\* for s in steps: ... rows.append(...)
BuildRows(stepList, names, d1, w1, h1, p1, c1, d2, w2, h2, p2, c2) ==
    Flatten([j \in DOMAIN stepList |->
               RowsOfStep(stepList[j], names, d1, w1, h1, p1, c1,
                          d2, w2, h2, p2, c2)])

(***************************************************************************)
(* The inputs of main: two long tables and the command line.               *)
(***************************************************************************)
Row(sec, kp, x, y, conf) ==
    [second |-> sec, keypoint_name |-> kp, x |-> x, y |-> y,
     keypoint_confidence |-> conf]

\* head x per second of a source of Spec: up to MaxSec seconds, not decreasing
FrameXs == {0, 1, 2}

Series ==
    UNION {{xs \in [1..n -> FrameXs] : \A t \in 1..(n - 1) : xs[t] <= xs[t + 1]}
             : n \in 1..MaxSec}

KpOpts == {"nose", "nose_hip", "eye_hip"}

\* the rows of second t - 1 of a source whose head is at xs[t]
FrameRows(xs, t, opt) ==
    LET head(k) == Row(t - 1, k, Rat(xs[t], 1), Rat(5, 1), One)
        hip     == Row(t - 1, "left_hip", Rat(xs[t] + 10, 1), Rat(7, 1), Rat(1, 2))
    IN  CASE opt = "nose"     -> <<head("nose")>>
          [] opt = "nose_hip" -> <<head("nose"), hip>>
          [] opt = "eye_hip"  -> IF t = 1 THEN <<head("left_eye"), hip>>
                                 ELSE <<head("left_eye")>>

\* "eye_hip" tables list their seconds last to first
MkTable(xs, opt) ==
    [columns |-> Required,
     rows    |-> Flatten([t \in DOMAIN xs |->
                            FrameRows(xs, IF opt = "eye_hip" THEN Len(xs) + 1 - t ELSE t,
                                      opt)])]

\* a table without its x column, and one with a repeated (second, keypoint)
BadColumnsTable ==
    [columns |-> Required \ {"x"}, rows |-> MkTable(<<0, 1>>, "nose").rows]

DuplicateTable ==
    [columns |-> Required \cup {"frame"},
     rows    |-> Append(MkTable(<<0, 1>>, "nose").rows,
                        Row(0, "nose", Rat(2, 1), Rat(5, 1), One))]

MainTables ==
    {MkTable(xs, opt) : xs \in Series, opt \in KpOpts}
        \cup {BadColumnsTable, DuplicateTable}

DefaultArgs ==
    [step |-> Rat(1, 2), tolerance |-> Rat(1, 4),
     head_kps |-> <<"nose", "left_eye">>, kp_conf |-> Rat(1, 4),
     head_method |-> "conf_weighted_avg"]

MainArgs ==
    {[DefaultArgs EXCEPT !.step = st, !.tolerance = tol]
        : st \in {Rat(1, 2), Rat(3, 5)}, tol \in {Zero, Rat(1, 4)}}
    \cup {[DefaultArgs EXCEPT !.step = Zero],
          [DefaultArgs EXCEPT !.step = Rat(3, 2)],
          [DefaultArgs EXCEPT !.head_kps = <<>>],
          [DefaultArgs EXCEPT !.head_method = "nose"],
          [DefaultArgs EXCEPT !.head_method = "simple_avg"],
          [DefaultArgs EXCEPT !.head_method = "median"]}

NoTable == [columns |-> {}, rows |-> <<>>]

NoWide == [raised |-> FALSE, kps |-> {}, rows |-> <<>>]

NoProgress == [raised |-> "", p |-> <<>>, x_min |-> NaN, x_max |-> NaN]

\* the variables main has not assigned yet
Unset ==
    /\ out_dir = FALSE
    /\ steps = <<>>
    /\ wide1 = NoWide /\ wide2 = NoWide
    /\ hx1 = <<>> /\ hx2 = <<>>
    /\ pr1 = NoProgress /\ pr2 = NoProgress
    /\ chosen1 = <<>> /\ chosen2 = <<>>
    /\ kp_names = <<>>
    /\ rows = <<>>
    /\ out_file = None
    /\ err = ""
    /\ ret = <<>>
    /\ env = <<>> /\ calls = <<>> /\ req = <<>> /\ procs = <<>>

Init ==
    /\ pc = "start"
    /\ args \in MainArgs
    /\ df1 \in MainTables
    /\ df2 \in MainTables
    /\ Unset

(***************************************************************************)
(* main, one action per stage; a raise ends the run at pc = "failed".      *)
(***************************************************************************)
Fail(e) == pc' = "failed" /\ err' = e

\* ParseArgs creating the output directory before the method is looked at
ParseArgsMkdirFirst ==
    /\ pc = "start"
    /\ out_dir' = TRUE
    /\ IF args.head_method \notin Methods
       THEN Fail("argparse") /\ UNCHANGED steps
       ELSE IF args.head_kps = <<>>
       THEN Fail("no_head_kps") /\ UNCHANGED steps
       ELSE IF ~StepValid(args.step)
       THEN Fail("bad_step") /\ UNCHANGED steps
       ELSE /\ steps' = BuildSteps(args.step)
            /\ pc' = "read"
            /\ UNCHANGED err
    /\ UNCHANGED <<args, df1, df2, wide1, wide2, hx1, hx2, pr1, pr2,
                   chosen1, chosen2, kp_names, rows, out_file, ret, svc>>

\* lines 180-217: argparse, mkdir of the output directory, head keypoints,
\* step check and the checkpoint list
ParseArgs ==
    /\ pc = "start"
    /\ IF args.head_method \notin Methods
       THEN Fail("argparse") /\ UNCHANGED <<out_dir, steps>>
       ELSE /\ out_dir' = TRUE
            /\ IF args.head_kps = <<>>
               THEN Fail("no_head_kps") /\ UNCHANGED steps
               ELSE IF ~StepValid(args.step)
               THEN Fail("bad_step") /\ UNCHANGED steps
               ELSE /\ steps' = BuildSteps(args.step)
                    /\ pc' = "read"
                    /\ UNCHANGED err
    /\ UNCHANGED <<args, df1, df2, wide1, wide2, hx1, hx2, pr1, pr2,
                   chosen1, chosen2, kp_names, rows, out_file, ret, svc>>

\* ReadPose checking the columns of the first table only
ReadPoseFirstOnly ==
    /\ pc = "read"
    /\ IF MissingColumns(df1) # {}
       THEN pc' = "failed" /\ err' = "missing_columns"
       ELSE pc' = "wide" /\ UNCHANGED err
    /\ UNCHANGED <<args, df1, df2, out_dir, steps, wide1, wide2, hx1, hx2, pr1, pr2,
                   chosen1, chosen2, kp_names, rows, out_file, ret, svc>>

\* lines 219-220
ReadPose ==
    /\ pc = "read"
    /\ IF read_pose_csv(df1).raised \/ read_pose_csv(df2).raised
       THEN Fail("missing_columns")
       ELSE pc' = "wide" /\ UNCHANGED err
    /\ UNCHANGED <<args, df1, df2, out_dir, steps, wide1, wide2, hx1, hx2, pr1, pr2,
                   chosen1, chosen2, kp_names, rows, out_file, ret, svc>>

\* lines 222-223
ToWide ==
    /\ pc = "wide"
    /\ LET w1 == to_wide_per_second(df1)
           w2 == to_wide_per_second(df2)
       IN  IF w1.raised
           THEN Fail("pivot_duplicate") /\ UNCHANGED <<wide1, wide2>>
           ELSE IF w2.raised
           THEN Fail("pivot_duplicate") /\ wide1' = w1 /\ UNCHANGED wide2
           ELSE wide1' = w1 /\ wide2' = w2 /\ pc' = "head_x" /\ UNCHANGED err
    /\ UNCHANGED <<args, df1, df2, out_dir, steps, hx1, hx2, pr1, pr2,
                   chosen1, chosen2, kp_names, rows, out_file, ret, svc>>

\* lines 225-228
HeadX ==
    /\ pc = "head_x"
    /\ hx1' = head_x_series(wide1, args.head_kps, args.kp_conf, args.head_method).out
    /\ hx2' = head_x_series(wide2, args.head_kps, args.kp_conf, args.head_method).out
    /\ pc' = "progress"
    /\ UNCHANGED <<args, df1, df2, out_dir, steps, wide1, wide2, pr1, pr2,
                   chosen1, chosen2, kp_names, rows, out_file, err, ret, svc>>

\* lines 230-231
Progress ==
    /\ pc = "progress"
    /\ LET r1 == progress_between_extremes(hx1)
           r2 == progress_between_extremes(hx2)
       IN  IF r1.raised # ""
           THEN Fail(r1.raised) /\ UNCHANGED <<pr1, pr2>>
           ELSE IF r2.raised # ""
           THEN Fail(r2.raised) /\ pr1' = r1 /\ UNCHANGED pr2
           ELSE pr1' = r1 /\ pr2' = r2 /\ pc' = "choose" /\ UNCHANGED err
    /\ UNCHANGED <<args, df1, df2, out_dir, steps, wide1, wide2, hx1, hx2,
                   chosen1, chosen2, kp_names, rows, out_file, ret, svc>>

\* lines 233-234
Choose ==
    /\ pc = "choose"
    /\ chosen1' = choose_seconds_for_steps(wide1, pr1.p, steps, args.tolerance).chosen
    /\ chosen2' = choose_seconds_for_steps(wide2, pr2.p, steps, args.tolerance).chosen
    /\ pc' = "kp_names"
    /\ UNCHANGED <<args, df1, df2, out_dir, steps, wide1, wide2, hx1, hx2, pr1, pr2,
                   kp_names, rows, out_file, err, ret, svc>>

\* lines 236-241
KpNames ==
    /\ pc = "kp_names"
    /\ IF CommonKps(df1, df2) = {}
       THEN Fail("no_common_keypoints") /\ UNCHANGED kp_names
       ELSE /\ \E order \in IterOrders(CommonKps(df1, df2)) : kp_names' = Sorted(order)
            /\ pc' = "rows"
            /\ UNCHANGED err
    /\ UNCHANGED <<args, df1, df2, out_dir, steps, wide1, wide2, hx1, hx2, pr1, pr2,
                   chosen1, chosen2, rows, out_file, ret, svc>>

\* EmitRows writing the second source's head range on both sides
EmitRowsCrossed ==
    /\ pc = "rows"
    /\ rows' = BuildRows(steps, kp_names, df1, wide1, hx1, pr2, chosen1,
                         df2, wide2, hx2, pr2, chosen2)
    /\ pc' = "write"
    /\ UNCHANGED <<args, df1, df2, out_dir, steps, wide1, wide2, hx1, hx2, pr1, pr2,
                   chosen1, chosen2, kp_names, out_file, err, ret, svc>>

\* lines 243-291
EmitRows ==
    /\ pc = "rows"
    /\ rows' = BuildRows(steps, kp_names, df1, wide1, hx1, pr1, chosen1,
                         df2, wide2, hx2, pr2, chosen2)
    /\ pc' = "write"
    /\ UNCHANGED <<args, df1, df2, out_dir, steps, wide1, wide2, hx1, hx2, pr1, pr2,
                   chosen1, chosen2, kp_names, out_file, err, ret, svc>>

\* lines 293-294
WriteCsv ==
    /\ pc = "write"
    /\ out_file' = Some(rows)
    /\ pc' = "done"
    /\ UNCHANGED <<args, df1, df2, out_dir, steps, wide1, wide2, hx1, hx2, pr1, pr2,
                   chosen1, chosen2, kp_names, rows, err, ret, svc>>

Next ==
    \/ ParseArgs
    \/ ReadPose
    \/ ToWide
    \/ HeadX
    \/ Progress
    \/ Choose
    \/ KpNames
    \/ EmitRows
    \/ WriteCsv

Spec == Init /\ [][Next]_vars

(***************************************************************************)
(* SpecSteps: the checkpoint list of main for every --step in hundredths   *)
(* from -0.01 to MaxStepNum / 100.                                         *)
(***************************************************************************)
InitSteps ==
    /\ pc = "start"
    /\ args \in {[DefaultArgs EXCEPT !.step = Rat(k, 100)] : k \in (-1)..MaxStepNum}
    /\ df1 = NoTable
    /\ df2 = NoTable
    /\ Unset

SpecSteps == InitSteps /\ [][ParseArgs]_vars

(***************************************************************************)
(* SpecHead: head_x_series on the wide form of a one-second table whose    *)
(* nose and left_eye rows are each absent or carry any x and confidence.   *)
(***************************************************************************)
XIn == {NaN} \cup {Rat(v, 1) : v \in 0..MaxX}

ConfIn == {NaN, Zero, Rat(1, 4), Rat(1, 2), One}

\* the rows of one keypoint at second 0: none, or one with x and confidence
KpRowsIn(kp) ==
    {<<>>} \cup {<<Row(0, kp, x, Rat(5, 1), c)>> : x \in XIn, c \in ConfIn}

HeadTables ==
    {[columns |-> Required, rows |-> a \o b]
        : a \in KpRowsIn("nose"), b \in KpRowsIn("left_eye")}

HeadArgs ==
    {[DefaultArgs EXCEPT !.head_kps = hk, !.kp_conf = th, !.head_method = m]
        : hk \in {<<"nose", "left_eye", "right_eye">>, <<"left_eye">>},
          th \in {Zero, Rat(1, 4), Rat(1, 2)},
          m \in Methods}

InitHead ==
    /\ pc = "call"
    /\ args \in HeadArgs
    /\ df1 \in HeadTables
    /\ df2 = NoTable
    /\ Unset

\* hx = head_x_series(to_wide_per_second(df), head_kps, kp_conf, method)
CallHeadX ==
    /\ pc = "call"
    /\ wide1' = to_wide_per_second(df1)
    /\ LET r == head_x_series(wide1', args.head_kps, args.kp_conf, args.head_method)
       IN  /\ hx1' = r.out
           /\ pc' = IF r.raised THEN "raised" ELSE "returned"
    /\ UNCHANGED <<args, df1, df2, out_dir, steps, wide2, hx2, pr1, pr2,
                   chosen1, chosen2, kp_names, rows, out_file, err, ret, svc>>

SpecHead == InitHead /\ [][CallHeadX]_vars

(***************************************************************************)
(* SpecProgress: progress_between_extremes on every head series of up to   *)
(* MaxSec + 1 seconds over NaN, 0..MaxX, 1/2 and two large neighbours.     *)
(***************************************************************************)
HxIn == XIn \cup {Rat(1, 2), Rat(100000, 1), Rat(100001, 1)}

SeqsUpTo(S, n) == UNION {[1..k -> S] : k \in 0..n}

InitProgress ==
    /\ pc = "call"
    /\ args = DefaultArgs
    /\ df1 = NoTable
    /\ df2 = NoTable
    /\ out_dir = FALSE
    /\ steps = <<>>
    /\ wide1 = NoWide /\ wide2 = NoWide
    /\ hx1 \in SeqsUpTo(HxIn, MaxSec + 1)
    /\ hx2 = <<>>
    /\ pr1 = NoProgress /\ pr2 = NoProgress
    /\ chosen1 = <<>> /\ chosen2 = <<>>
    /\ kp_names = <<>>
    /\ rows = <<>>
    /\ out_file = None
    /\ err = ""
    /\ ret = <<>>
    /\ env = <<>> /\ calls = <<>> /\ req = <<>> /\ procs = <<>>

CallProgress ==
    /\ pc = "call"
    /\ pr1' = progress_between_extremes(hx1)
    /\ pc' = "returned"
    /\ UNCHANGED <<args, df1, df2, out_dir, steps, wide1, wide2, hx1, hx2, pr2,
                   chosen1, chosen2, kp_names, rows, out_file, err, ret, svc>>

SpecProgress == InitProgress /\ [][CallProgress]_vars

(***************************************************************************)
(* SpecChoose: choose_seconds_for_steps on every progress series of up to  *)
(* MaxSec seconds over NaN and the quarters of [0, 1].                     *)
(***************************************************************************)
PIn == {NaN} \cup {Rat(k, 4) : k \in 0..4}

\* a wide table of n seconds, gap apart, with no keypoint column
WideOfSeconds(n, gap) ==
    [raised |-> FALSE, kps |-> {},
     rows |-> [t \in 1..n |-> [second |-> gap * (t - 1), kp |-> <<>>]]]

InitChoose ==
    /\ pc = "call"
    /\ args \in {[DefaultArgs EXCEPT !.step = st, !.tolerance = tol]
                    : st \in {Rat(1, 2), Rat(1, 4)},
                      tol \in {Zero, Rat(1, 4), Rat(1, 2)}}
    /\ df1 = NoTable
    /\ df2 = NoTable
    /\ out_dir = FALSE
    /\ steps = BuildSteps(args.step)
    /\ \E p \in SeqsUpTo(PIn, MaxSec), gap \in {1, 2} :
          /\ pr1 = [NoProgress EXCEPT !.p = p]
          /\ wide1 = WideOfSeconds(Len(p), gap)
    /\ wide2 = NoWide
    /\ hx1 = <<>> /\ hx2 = <<>>
    /\ pr2 = NoProgress
    /\ chosen1 = <<>> /\ chosen2 = <<>>
    /\ kp_names = <<>>
    /\ rows = <<>>
    /\ out_file = None
    /\ err = ""
    /\ ret = <<>>
    /\ env = <<>> /\ calls = <<>> /\ req = <<>> /\ procs = <<>>

CallChoose ==
    /\ pc = "call"
    /\ LET r == choose_seconds_for_steps(wide1, pr1.p, steps, args.tolerance)
       IN  /\ chosen1' = r.chosen
           /\ pc' = IF r.raised THEN "raised" ELSE "returned"
    /\ UNCHANGED <<args, df1, df2, out_dir, steps, wide1, wide2, hx1, hx2, pr1, pr2,
                   chosen2, kp_names, rows, out_file, err, ret, svc>>

SpecChoose == InitChoose /\ [][CallChoose]_vars

(***************************************************************************)
(* SpecMethod: the two places that look at the method name. A behaviour is *)
(* a run of main on two of a few tables, or one call of head_x_series on   *)
(* the wide form of a one-second table, each with known and unknown        *)
(* method names.                                                           *)
(***************************************************************************)
UnknownMethods == {"median", "NOSE", ""}

MethodTables == {MkTable(<<0, 1, 2>>, "nose"), MkTable(<<0, 2>>, "nose_hip")}

InitMethodMain ==
    /\ pc = "start"
    /\ args \in MainArgs \cup {[DefaultArgs EXCEPT !.head_method = m]
                                  : m \in UnknownMethods}
    /\ df1 \in MethodTables
    /\ df2 \in MethodTables
    /\ Unset

InitMethodCall ==
    /\ pc = "call"
    /\ args \in HeadArgs \cup {[a EXCEPT !.head_method = m]
                                  : a \in HeadArgs, m \in UnknownMethods}
    /\ df1 \in HeadTables
    /\ df2 = NoTable
    /\ Unset

InitMethod == InitMethodMain \/ InitMethodCall

NextMethod ==
    \/ ParseArgs
    \/ ReadPose
    \/ ToWide
    \/ HeadX
    \/ Progress
    \/ Choose
    \/ KpNames
    \/ EmitRows
    \/ WriteCsv
    \/ CallHeadX

SpecMethod == InitMethod /\ [][NextMethod]_vars

(***************************************************************************)
(* SpecRead: read_pose_csv on tables with every set of columns drawn from  *)
(* the required ones and one more.                                         *)
(***************************************************************************)
ReadColumns == SUBSET (Required \cup {"frame"})

ReadRows == {<<>>, MkTable(<<0, 1>>, "nose").rows, DuplicateTable.rows}

InitRead ==
    /\ pc = "call"
    /\ args = DefaultArgs
    /\ df1 \in {[columns |-> cs, rows |-> rs] : cs \in ReadColumns, rs \in ReadRows}
    /\ df2 = NoTable
    /\ Unset

\* ret = read_pose_csv(path), or the exception it raises
CallRead ==
    /\ pc = "call"
    /\ ret' = read_pose_csv(df1)
    /\ pc' = IF ret'.raised THEN "raised" ELSE "returned"
    /\ UNCHANGED <<args, df1, df2, out_dir, steps, wide1, wide2, hx1, hx2, pr1, pr2,
                   chosen1, chosen2, kp_names, rows, out_file, err, svc>>

SpecRead == InitRead /\ [][CallRead]_vars

(***************************************************************************)
(* SpecWide: to_wide_per_second on every table of one to MaxSec rows, in   *)
(* any order, over three seconds, two keypoints and a present or absent x. *)
(***************************************************************************)
WideRowsIn ==
    {Row(sec, kp, x, Rat(5, 1), Rat(1, 2))
        : sec \in {0, 2, 3}, kp \in {"nose", "left_hip"}, x \in {NaN, One}}

InitWide ==
    /\ pc = "call"
    /\ args = DefaultArgs
    /\ df1 \in {[columns |-> Required, rows |-> rs]
                    : rs \in SeqsUpTo(WideRowsIn, MaxSec) \ {<<>>}}
    /\ df2 = NoTable
    /\ Unset

\* wide = to_wide_per_second(df), or the ValueError of df.pivot
CallToWide ==
    /\ pc = "call"
    /\ wide1' = to_wide_per_second(df1)
    /\ pc' = IF wide1'.raised THEN "raised" ELSE "returned"
    /\ UNCHANGED <<args, df1, df2, out_dir, steps, wide2, hx1, hx2, pr1, pr2,
                   chosen1, chosen2, kp_names, rows, out_file, err, ret, svc>>

SpecWide == InitWide /\ [][CallToWide]_vars

(***************************************************************************)
(* SpecScenario: main on two nose-only sources of confidence 1.0 whose x   *)
(* is the second, over seconds 0..10, with --step 0.5 --tolerance 0.01.    *)
(* What the scenario leaves open is drawn: the order of the rows and the y *)
(* of each file, the head method, the threshold and the head keypoints.    *)
(***************************************************************************)
\* rows of seconds 0..10, first to last or last to first
LinearTable(y, ascending) ==
    [columns |-> Required,
     rows    |-> [i \in 1..11 |->
                    LET t == IF ascending THEN i - 1 ELSE 11 - i
                    IN  Row(t, "nose", Rat(t, 1), Rat(y, 1), One)]]

ScenarioTables == {LinearTable(y, asc) : y \in {5, 7}, asc \in BOOLEAN}

ScenarioArgs ==
    {[step |-> Rat(1, 2), tolerance |-> Rat(1, 100),
      head_kps |-> hk, kp_conf |-> th, head_method |-> m]
        : hk \in {<<"nose">>, <<"nose", "left_eye">>},
          th \in {Zero, Rat(1, 4), Rat(1, 2), One},
          m \in Methods}

InitScenario ==
    /\ pc = "start"
    /\ args \in ScenarioArgs
    /\ df1 \in ScenarioTables
    /\ df2 \in ScenarioTables
    /\ Unset

SpecScenario == InitScenario /\ [][Next]_vars

(***************************************************************************)
(* SpecTwoSeconds: main on two sources of two seconds each (x = 0 at       *)
(* second 0, x = 10 at second 1) with --step 0.1 and every tolerance in    *)
(* twentieths from 0 to 1; the order of the rows and the head method are   *)
(* drawn.                                                                  *)
(***************************************************************************)
TwoSecondTable(ascending) ==
    [columns |-> Required,
     rows    |-> IF ascending
                 THEN <<Row(0, "nose", Zero, Rat(5, 1), One),
                        Row(1, "nose", Rat(10, 1), Rat(5, 1), One)>>
                 ELSE <<Row(1, "nose", Rat(10, 1), Rat(5, 1), One),
                        Row(0, "nose", Zero, Rat(5, 1), One)>>]

TwoSecondArgs ==
    {[DefaultArgs EXCEPT !.step = Rat(1, 10), !.tolerance = Rat(k, 20),
                         !.head_method = m]
        : k \in 0..20, m \in Methods}

InitTwoSeconds ==
    /\ pc = "start"
    /\ args \in TwoSecondArgs
    /\ df1 \in {TwoSecondTable(a) : a \in BOOLEAN}
    /\ df2 \in {TwoSecondTable(a) : a \in BOOLEAN}
    /\ Unset

SpecTwoSeconds == InitTwoSeconds /\ [][Next]_vars

(***************************************************************************)
(* services/dynamodb.py: the table getters.  SpecTables: one call of       *)
(* get_ddb_tables, made directly or by the statement                       *)
(* "users_table, team_members_table = get_ddb_tables()" of a route, under  *)
(* every configuration of the table names and of boto3.                    *)
(***************************************************************************)
\* the variables of the alignment script, which the helpers never touch
script == <<args, df1, df2, out_dir, steps, wide1, wide2, hx1, hx2, pr1, pr2,
            chosen1, chosen2, kp_names, rows, out_file>>

ScriptIdle ==
    /\ args = DefaultArgs
    /\ df1 = NoTable /\ df2 = NoTable
    /\ out_dir = FALSE /\ steps = <<>>
    /\ wide1 = NoWide /\ wide2 = NoWide
    /\ hx1 = <<>> /\ hx2 = <<>>
    /\ pr1 = NoProgress /\ pr2 = NoProgress
    /\ chosen1 = <<>> /\ chosen2 = <<>>
    /\ kp_names = <<>> /\ rows = <<>>
    /\ out_file = None

Table(name) == [table |-> name]

\* a getter's result: the exception it raises ("" for none) and its value
Raised(e) == [raised |-> e, value |-> <<>>]

Returned(v) == [raised |-> "", value |-> v]

\* _get_resource().Table(name); RuntimeError without boto3
get_users_table(e) ==
    IF ~e.boto3 THEN Raised("RuntimeError") ELSE Returned(Table(e.users))

get_team_members_table(e) ==
    IF ~e.boto3 THEN Raised("RuntimeError") ELSE Returned(Table(e.members))

\* RuntimeError too when LANDMARKS_TABLE_NAME is empty
get_landmarks_table(e) ==
    IF e.landmarks = "" \/ ~e.boto3 THEN Raised("RuntimeError")
    ELSE Returned(Table(e.landmarks))

\* return get_users_table(), get_team_members_table(), get_landmarks_table()
get_ddb_tables(e) ==
    LET u == get_users_table(e)
        m == get_team_members_table(e)
        l == get_landmarks_table(e)
    IN  IF u.raised # "" THEN u
        ELSE IF m.raised # "" THEN m
        ELSE IF l.raised # "" THEN l
        ELSE Returned(<<u.value, m.value, l.value>>)

\* the lines of api_routes.py that unpack get_ddb_tables() into two names
UnpackLines == {122, 159, 224, 287, 365, 443, 476, 510}

TableEnvs ==
    [boto3 : BOOLEAN, users : {"RowlyticsUsers", "UsersTest"},
     members : {"RowlyticsTeamMembers", "MembersTest"},
     landmarks : {"RowlyticsLandmarks", ""}]

InitTables ==
    /\ pc = "call"
    /\ env \in TableEnvs
    /\ req \in {[kind |-> "direct", line |-> 0]}
                  \cup {[kind |-> "route", line |-> l] : l \in UnpackLines}
    /\ calls = <<>> /\ procs = <<>>
    /\ err = "" /\ ret = <<>>
    /\ ScriptIdle

\* result = dynamodb.get_ddb_tables()
CallGetDdbTables ==
    /\ pc = "call"
    /\ req.kind = "direct"
    /\ LET r == get_ddb_tables(env)
       IN  IF r.raised # ""
           THEN pc' = "raised" /\ err' = r.raised /\ UNCHANGED ret
           ELSE pc' = "returned" /\ ret' = r.value /\ UNCHANGED err
    /\ UNCHANGED <<script, env, calls, req, procs>>

\* try: users_table, team_members_table = get_ddb_tables()
\* except RuntimeError as err: return jsonify({"error": str(err)}), 500
\* A result that is not of two elements raises ValueError in the unpacking,
\* which the except clause does not catch.
RouteGetTables ==
    /\ pc = "call"
    /\ req.kind = "route"
    /\ LET r == get_ddb_tables(env)
       IN  IF r.raised = "RuntimeError"
           THEN pc' = "responded" /\ ret' = [status |-> 500] /\ UNCHANGED err
           ELSE IF Len(r.value) # 2
           THEN pc' = "raised" /\ err' = "ValueError" /\ UNCHANGED ret
           ELSE /\ pc' = "unpacked"
                /\ ret' = [users_table |-> r.value[1],
                           team_members_table |-> r.value[2]]
                /\ UNCHANGED err
    /\ UNCHANGED <<script, env, calls, req, procs>>

NextTables == CallGetDdbTables \/ RouteGetTables

SpecTables == InitTables /\ [][NextTables]_vars

(***************************************************************************)
(* services/dynamodb.py: query_all and scan_all.  SpecPages: one call on a *)
(* table of one to MaxPages pages; page i holds up to two items, answers   *)
(* with LastEvaluatedKey i unless it is the last page, and may fail.  One  *)
(* action is one pass of the while loop: one request.                      *)
(***************************************************************************)
\* the items of page i: none, one or two, named after the page
PageItems(i) == {<<>>, <<10 * i + 1>>, <<10 * i + 1, 10 * i + 2>>}

PageStores ==
    UNION {{ps \in [1..n -> [items : UNION {PageItems(i) : i \in 1..n},
                             fail : BOOLEAN]] :
                \A i \in 1..n : ps[i].items \in PageItems(i)}
             : n \in 1..MaxPages}

\* table.query / table.scan of the mock: the page after ExclusiveStartKey
ResponseTo(pages, start) ==
    LET i == IF start = None THEN 1 ELSE start[1] + 1
    IN  [raised |-> pages[i].fail,
         Items |-> pages[i].items,
         LastEvaluatedKey |-> IF i < Len(pages) THEN Some(i) ELSE None]

InitPages ==
    /\ pc = "loop"
    /\ env \in PageStores
    /\ req \in {[op |-> "query"], [op |-> "scan"]}
    /\ calls = <<>>
    /\ procs = [items |-> <<>>, last_key |-> None]
    /\ err = "" /\ ret = <<>>
    /\ ScriptIdle

\* one pass of the loop that returns after its first response
PagedStepOnce(op) ==
    /\ pc = "loop"
    /\ req.op = op
    /\ calls' = Append(calls, [op |-> op, ExclusiveStartKey |-> procs.last_key])
    /\ LET response == ResponseTo(env, procs.last_key)
       IN  IF response.raised
           THEN pc' = "raised" /\ err' = "ClientError" /\ UNCHANGED <<procs, ret>>
           ELSE /\ procs' = [items |-> procs.items \o response.Items,
                             last_key |-> response.LastEvaluatedKey]
                /\ pc' = "returned" /\ ret' = procs'.items
                /\ UNCHANGED err
    /\ UNCHANGED <<script, env, req>>

\* one pass of the while loop of query_all (op "query") or scan_all ("scan"):
\* the request with the last key, the items appended, the key kept; the
\* exception of the request re-raised
PagedStep(op) ==
    /\ pc = "loop"
    /\ req.op = op
    /\ calls' = Append(calls, [op |-> op, ExclusiveStartKey |-> procs.last_key])
    /\ LET response == ResponseTo(env, procs.last_key)
       IN  IF response.raised
           THEN pc' = "raised" /\ err' = "ClientError" /\ UNCHANGED <<procs, ret>>
           ELSE /\ procs' = [items |-> procs.items \o response.Items,
                             last_key |-> response.LastEvaluatedKey]
                /\ IF procs'.last_key = None
                   THEN pc' = "returned" /\ ret' = procs'.items
                   ELSE pc' = "loop" /\ UNCHANGED ret
                /\ UNCHANGED err
    /\ UNCHANGED <<script, env, req>>

QueryAllStep == PagedStep("query")

ScanAllStep == PagedStep("scan")

NextPages == QueryAllStep \/ ScanAllStep

\* the loop runs on until it returns or raises
SpecPages == InitPages /\ [][NextPages]_vars /\ WF_vars(NextPages)

(***************************************************************************)
(* services/dynamodb.py: get_team_membership and list_team_memberships.    *)
(* SpecFallback: one call against a mock table whose index query and scan  *)
(* each answer with one or two pages; a page holds no item or one          *)
(* membership, or raises.                                                  *)
(***************************************************************************)
NoError == [cls |-> "", code |-> ""]

ClientError(code) == [cls |-> "ClientError", code |-> code]

\* an exception that is not a ClientError
OtherError == [cls |-> "RuntimeError", code |-> ""]

QueryErrors ==
    {ClientError(c) : c \in {"ValidationException", "ResourceNotFoundException",
                             "AccessDeniedException"}} \cup {OtherError}

PageOutcomes(errors) ==
    {[error |-> NoError, items |-> is]
        : is \in {<<>>, <<[userId |-> "u1", teamId |-> "t1"]>>}}
    \cup {[error |-> e, items |-> <<>>] : e \in errors}

PagesOf(errors) == [1..1 -> PageOutcomes(errors)] \cup [1..2 -> PageOutcomes(errors)]

\* every error code falls back to the scan
FallbackCodesAny ==
    {"ValidationException", "ResourceNotFoundException", "AccessDeniedException"}

\* if error_code in {"ValidationException", "ResourceNotFoundException"}
FallbackCodes == {"ValidationException", "ResourceNotFoundException"}

\* the except clause: the error of the query leads to the fallback scan
FallsBack(e) == e.cls = "ClientError" /\ e.code \in FallbackCodes

\* query_all / scan_all over the pages from page i on, items so far acc: the
\* exception, the items and the number of requests
RECURSIVE FetchAll(_, _, _)
FetchAll(pages, i, acc) ==
    IF pages[i].error # NoError
    THEN [error |-> pages[i].error, value |-> <<>>, requests |-> i]
    ELSE IF i < Len(pages) THEN FetchAll(pages, i + 1, acc \o pages[i].items)
    ELSE [error |-> NoError, value |-> acc \o pages[i].items, requests |-> i]

\* the requests a call logs
QueryCall(user) == [op |-> "query", IndexName |-> "UserIdIndex", userId |-> user]

ScanCall(user) == [op |-> "scan", IndexName |-> "", userId |-> user]

FirstOrNone(items) == IF items = <<>> THEN None ELSE Some(items[1])

InitFallback ==
    /\ pc = "call"
    /\ env \in [query : PagesOf(QueryErrors),
                scan : PagesOf({ClientError("ValidationException"), OtherError})]
    /\ req \in [fn : {"get_team_membership", "list_team_memberships"},
                user_id : {"u1"}]
    /\ calls = <<>> /\ procs = <<>>
    /\ err = "" /\ ret = <<>>
    /\ ScriptIdle

\* the end of a call: the value returned or the exception raised
Finish(error, value) ==
    IF error # NoError
    THEN pc' = "raised" /\ err' = error /\ UNCHANGED ret
    ELSE pc' = "returned" /\ ret' = value /\ UNCHANGED err

\* lines 217-245: one query; one scan with Limit=1 in the except clause
GetTeamMembership ==
    /\ pc = "call"
    /\ req.fn = "get_team_membership"
    /\ LET q == env.query[1]
           s == env.scan[1]
       IN  IF q.error = NoError
           THEN calls' = <<QueryCall(req.user_id)>>
                /\ Finish(NoError, FirstOrNone(q.items))
           ELSE IF FallsBack(q.error)
           THEN calls' = <<QueryCall(req.user_id), ScanCall(req.user_id)>>
                /\ Finish(s.error, FirstOrNone(s.items))
           ELSE calls' = <<QueryCall(req.user_id)>>
                /\ Finish(q.error, None)
    /\ UNCHANGED <<script, env, req, procs>>

\* lines 318-344: query_all; scan_all in the except clause
ListTeamMemberships ==
    /\ pc = "call"
    /\ req.fn = "list_team_memberships"
    /\ LET q  == FetchAll(env.query, 1, <<>>)
           s  == FetchAll(env.scan, 1, <<>>)
           qs == [i \in 1..q.requests |-> QueryCall(req.user_id)]
           ss == [i \in 1..s.requests |-> ScanCall(req.user_id)]
       IN  IF q.error = NoError
           THEN calls' = qs /\ Finish(NoError, q.value)
           ELSE IF FallsBack(q.error)
           THEN calls' = qs \o ss /\ Finish(s.error, s.value)
           ELSE calls' = qs /\ Finish(q.error, <<>>)
    /\ UNCHANGED <<script, env, req, procs>>

NextFallback == GetTeamMembership \/ ListTeamMemberships

SpecFallback == InitFallback /\ [][NextFallback]_vars

(***************************************************************************)
(* auth/cognito.py: delete_cognito_user.  SpecCognito: one call against a  *)
(* mock client whose delete_user and admin_delete_user each succeed or     *)
(* raise, with and without token, email, user id, pool id and boto3.  An   *)
(* absent string (None) is "".                                             *)
(***************************************************************************)
CognitoEnvs ==
    [boto3 : BOOLEAN, pool_id : {"", "pool"},
     delete_user : {"", "token fail"}, admin_delete_user : {"", "admin fail"}]

CognitoReqs ==
    [user_id : {"", "u1"}, email : {"", "u@example.com"}, access_token : {"", "token"}]

\* last_error keeping the error of the token deletion when there is one
LastErrorFirst(token_error, admin_error) ==
    IF token_error # "" THEN token_error ELSE admin_error

\* last_error after both except clauses: the admin error overwrites it
LastError(token_error, admin_error) == admin_error

\* delete_cognito_user(user_id, email, access_token): the requests made and
\* the message of the RuntimeError raised ("" when it returns)
delete_cognito_user(e, r) ==
    LET token_call  == [op |-> "delete_user", AccessToken |-> r.access_token,
                        UserPoolId |-> "", Username |-> ""]
        username    == IF r.email # "" THEN r.email ELSE r.user_id
        admin_call  == [op |-> "admin_delete_user", AccessToken |-> "",
                        UserPoolId |-> e.pool_id, Username |-> username]
        tried       == IF r.access_token # "" THEN <<token_call>> ELSE <<>>
        token_error == IF r.access_token # "" THEN e.delete_user ELSE ""
    IN  IF ~e.boto3
        THEN [calls |-> <<>>, raised |-> "boto3 is required for Cognito access"]
        ELSE IF r.access_token # "" /\ e.delete_user = ""
        THEN [calls |-> tried, raised |-> ""]
        ELSE IF e.pool_id = "" \/ username = ""
        THEN [calls |-> tried, raised |-> "Missing Cognito pool id or username"]
        ELSE IF e.admin_delete_user = ""
        THEN [calls |-> Append(tried, admin_call), raised |-> ""]
        ELSE [calls |-> Append(tried, admin_call),
              raised |-> LastError(token_error, e.admin_delete_user)]

InitCognito ==
    /\ pc = "call"
    /\ env \in CognitoEnvs
    /\ req \in CognitoReqs
    /\ calls = <<>> /\ procs = <<>>
    /\ err = "" /\ ret = <<>>
    /\ ScriptIdle

DeleteCognitoUser ==
    /\ pc = "call"
    /\ LET r == delete_cognito_user(env, req)
       IN  /\ calls' = r.calls
           /\ IF r.raised # ""
              THEN pc' = "raised" /\ err' = [cls |-> "RuntimeError", msg |-> r.raised]
              ELSE pc' = "returned" /\ UNCHANGED err
    /\ UNCHANGED <<script, env, req, procs, ret>>

SpecCognito == InitCognito /\ [][DeleteCognitoUser]_vars

(***************************************************************************)
(* services/dynamodb.py: batch_get_users.  SpecBatch: one call with the    *)
(* user ids 1..n, n up to MaxIds, against a mock client that knows all,    *)
(* the even or none of the ids and fails at no batch or at one of the      *)
(* first three.  One action is one pass of the for loop: one batch.        *)
(***************************************************************************)
\* for idx in range(0, len(user_ids), 100)
ChunkSize == 100

\* the chunk taking one id more
ChunkInclusive(ids, idx) ==
    SubSeq(ids, idx + 1, IF idx + ChunkSize + 1 < Len(ids)
                         THEN idx + ChunkSize + 1 ELSE Len(ids))

\* chunk = user_ids[idx:idx + 100]
Chunk(ids, idx) ==
    SubSeq(ids, idx + 1, IF idx + ChunkSize < Len(ids) THEN idx + ChunkSize ELSE Len(ids))

\* whether the mock's table holds user id
Known(present, id) ==
    \/ present = "all"
    \/ present = "even" /\ id % 2 = 0

\* response["Responses"][users_table.name] for the keys asked
UsersFor(present, keys) ==
    LET kept == SelectSeq(keys, LAMBDA id : Known(present, id))
    IN  [i \in DOMAIN kept |-> [userId |-> kept[i]]]

InitBatch ==
    /\ pc = "call"
    /\ env \in [present : {"all", "even", "none"}, fail_at : 0..3]
    /\ req \in {[user_ids |-> [i \in 1..n |-> i]] : n \in 0..MaxIds}
    /\ calls = <<>>
    /\ procs = [idx |-> 0, users_by_id |-> <<>>]
    /\ err = "" /\ ret = None
    /\ ScriptIdle

\* lines 142-147: the empty list returns {} at once
BatchGetUsersEnter ==
    /\ pc = "call"
    /\ IF req.user_ids = <<>>
       THEN pc' = "returned" /\ ret' = Some(<<>>)
       ELSE pc' = "loop" /\ UNCHANGED ret
    /\ UNCHANGED <<script, env, req, calls, procs, err>>

\* lines 148-172: one batch_get_item, its users stored by userId; return
\* users_by_id after the last chunk
BatchStep ==
    /\ pc = "loop"
    /\ LET chunk == Chunk(req.user_ids, procs.idx)
           users == UsersFor(env.present, chunk)
           found == {users[i].userId : i \in DOMAIN users}
       IN  /\ calls' = Append(calls, [op |-> "batch_get_item", Keys |-> chunk])
           /\ IF env.fail_at = Len(calls')
              THEN pc' = "raised" /\ err' = "Exception" /\ UNCHANGED <<procs, ret>>
              ELSE /\ procs' =
                        [idx |-> procs.idx + ChunkSize,
                         users_by_id |->
                            [id \in DOMAIN procs.users_by_id \cup found |->
                                [userId |-> id]]]
                   /\ IF procs'.idx >= Len(req.user_ids)
                      THEN pc' = "returned" /\ ret' = Some(procs'.users_by_id)
                      ELSE pc' = "loop" /\ UNCHANGED ret
                   /\ UNCHANGED err
    /\ UNCHANGED <<script, env, req>>

NextBatch == BatchGetUsersEnter \/ BatchStep

SpecBatch == InitBatch /\ [][NextBatch]_vars

(***************************************************************************)
(* skeletal.py: the per-second table of the extractor (main, lines 138-247, *)
(* export_keypoints_per_second_csv, lines 57-100).  env holds the video    *)
(* (frames, each the detections of the model on it), its fps and the       *)
(* options; procs holds frame_idx and per_second; ret is the written file. *)
(* A detection is [cls, conf]: its class id and its detection confidence   *)
(* (a level: 1 below 2); its keypoints are named by <<frame_idx, di>>.     *)
(***************************************************************************)
COCO_KP_NAMES ==
    <<"nose", "left_eye", "right_eye", "left_ear", "right_ear",
      "left_shoulder", "right_shoulder", "left_elbow", "right_elbow",
      "left_wrist", "right_wrist", "left_hip", "right_hip",
      "left_knee", "right_knee", "left_ankle", "right_ankle">>

Detections == {[cls |-> 0, conf |-> 1], [cls |-> 0, conf |-> 2], [cls |-> 1, conf |-> 2]}

FrameResults == UNION {[1..n -> Detections] : n \in 0..2}

\* fps = cap.get(cv2.CAP_PROP_FPS) or 30.0
FpsOf(e) == IF e.fps = 0 THEN 30 ELSE e.fps

\* sec = int(frame_idx / fps)
SecOf(frame_idx, fps) == frame_idx \div fps

\* the guard that lets every frame of a second store its person
NotCapturedAlways(per_second, sec) == TRUE

\* sec not in per_second
NotCaptured(per_second, sec) == \A entry \in per_second : entry.second # sec

\* the skip of lines 184-185 and 200-201, on the 0-based index di
Skipped(e, dets, di) == e.person_only /\ dets[di + 1].cls # 0

\* lines 181-189: the loop over the detections, from index di on
RECURSIVE BestFrom(_, _, _, _, _)
BestFrom(e, dets, di, best_di, best_score) ==
    IF di >= Len(dets) THEN best_di
    ELSE IF Skipped(e, dets, di) THEN BestFrom(e, dets, di + 1, best_di, best_score)
    ELSE IF dets[di + 1].conf > best_score
         THEN BestFrom(e, dets, di + 1, Some(di), dets[di + 1].conf)
         ELSE BestFrom(e, dets, di + 1, best_di, best_score)

\* per_second[sec] = {...}: a dict keeps one value per key
PutSecond(per_second, sec, entry) ==
    {old \in per_second : old.second # sec} \cup {entry}

\* lines 85-100: the rows of one stored second
RowsOfSecond(entry) ==
    [ki \in 1..Len(COCO_KP_NAMES) |->
        [second |-> entry.second,
         person_index |-> entry.person_index,
         detection_confidence |-> entry.detection_confidence,
         keypoint_index |-> ki - 1,
         keypoint_name |-> COCO_KP_NAMES[ki],
         xy |-> <<entry.kpts_xy, ki - 1>>,
         keypoint_confidence |-> <<entry.kpts_conf, ki - 1>>]]

RECURSIVE RowsOfSeconds(_, _)
RowsOfSeconds(per_second, secs) ==
    IF secs = <<>> THEN <<>>
    ELSE LET entry == CHOOSE old \in per_second : old.second = Head(secs)
         IN  RowsOfSecond(entry) \o RowsOfSeconds(per_second, Tail(secs))

export_keypoints_per_second_csv(per_second) ==
    RowsOfSeconds(per_second, SortedInts({entry.second : entry \in per_second}))

InitExtract ==
    /\ pc = "loop"
    /\ env \in [frames : [1..MaxFrames -> FrameResults], fps : 0..2,
                person_only : BOOLEAN, csv_per_second : BOOLEAN,
                has_conf : BOOLEAN]
    /\ procs = [frame_idx |-> 0, per_second |-> {}]
    /\ req = <<>> /\ calls = <<>> /\ ret = None /\ err = ""
    /\ ScriptIdle

\* lines 142-145: cap.read() fails after the last frame
ExtractEnd ==
    /\ pc = "loop"
    /\ procs.frame_idx >= Len(env.frames)
    /\ pc' = "export"
    /\ UNCHANGED <<script, err, ret, svc>>

\* lines 147-226: one frame of the loop
ExtractFrame ==
    /\ pc = "loop"
    /\ procs.frame_idx < Len(env.frames)
    /\ LET dets == env.frames[procs.frame_idx + 1]
           sec == SecOf(procs.frame_idx, FpsOf(env))
           best_di == BestFrom(env, dets, 0, None, -1)
           stores == /\ env.csv_per_second
                     /\ NotCaptured(procs.per_second, sec)
                     /\ best_di # None
           draws == \E di \in 0..(Len(dets) - 1) : ~Skipped(env, dets, di)
           entry == [second |-> sec,
                     person_index |-> best_di[1],
                     detection_confidence |-> dets[best_di[1] + 1].conf,
                     kpts_xy |-> <<procs.frame_idx, best_di[1]>>,
                     kpts_conf |-> <<procs.frame_idx, best_di[1]>>]
       IN  \* lines 169-172 leave kpts_conf unassigned when the model gives
           \* no keypoint confidence: its first use raises
           IF Len(dets) > 0 /\ ~env.has_conf /\ (stores \/ draws)
           THEN /\ pc' = "raised" /\ err' = "NameError"
                /\ UNCHANGED procs
           ELSE /\ procs' = [frame_idx |-> procs.frame_idx + 1,
                             per_second |->
                                 IF Len(dets) > 0 /\ stores
                                 THEN PutSecond(procs.per_second, sec, entry)
                                 ELSE procs.per_second]
                /\ UNCHANGED <<pc, err>>
    /\ UNCHANGED <<script, ret, env, calls, req>>

\* lines 246-248
ExtractExport ==
    /\ pc = "export"
    /\ pc' = "done"
    /\ ret' = IF env.csv_per_second
              THEN Some(export_keypoints_per_second_csv(procs.per_second))
              ELSE None
    /\ UNCHANGED <<script, err, svc>>

NextExtract == ExtractFrame \/ ExtractEnd \/ ExtractExport

SpecExtract == InitExtract /\ [][NextExtract]_vars

(***************************************************************************)
(* SpecExtremes: lines 230-234 of main, the two progress computations and  *)
(* the two choices, from head series in any order of values (with NaN and  *)
(* repeated extremes), on seconds 0, gap, 2*gap, ...                       *)
(***************************************************************************)
ExtremeXs == {NaN, Zero, Rat(1, 2), One, Rat(2, 1)}

OtherSeries ==
    {<<Zero, One>>, <<Rat(2, 1), NaN, Zero, Rat(2, 1), Zero>>, <<One, One>>}

InitExtremes ==
    /\ pc = "progress"
    /\ args \in {[DefaultArgs EXCEPT !.step = st, !.tolerance = tol]
                    : st \in {Rat(1, 2), Rat(3, 5), Rat(1, 4)},
                      tol \in {Zero, Rat(1, 4), One}}
    /\ steps = BuildSteps(args.step)
    /\ hx1 \in SeqsUpTo(ExtremeXs, MaxSec)
    /\ hx2 \in OtherSeries
    /\ \E gap \in {1, 2} : wide1 = WideOfSeconds(Len(hx1), gap)
    /\ wide2 = WideOfSeconds(Len(hx2), 1)
    /\ df1 = NoTable /\ df2 = NoTable
    /\ out_dir = TRUE
    /\ pr1 = NoProgress /\ pr2 = NoProgress
    /\ chosen1 = <<>> /\ chosen2 = <<>>
    /\ kp_names = <<>> /\ rows = <<>> /\ out_file = None
    /\ err = "" /\ ret = <<>>
    /\ env = <<>> /\ calls = <<>> /\ req = <<>> /\ procs = <<>>

NextExtremes == Progress \/ Choose

SpecExtremes == InitExtremes /\ [][NextExtremes]_vars

(***************************************************************************)
(* SpecTeams: concurrent add_team_member, join_team and create_team        *)
(* requests (api_routes.py).  Each request is a process of req; procs      *)
(* holds its position (at), its team id and its response; one step is the  *)
(* code up to and including one DynamoDB request.  env holds the store:    *)
(* the team-members table, whose primary key is (teamId, userId) (lines    *)
(* 457 and 553 of api_routes.py, line 180 of dynamodb.py), the teams table *)
(* and the users table.  Reads are consistent and requests to the store    *)
(* do not fail.  env.ddb_tables says what get_ddb_tables gives the routes: *)
(* "as_written", the three tables of dynamodb.py line 90, or "pair", the   *)
(* two tables that its test (test_dynamodb.py lines 72-78) and the         *)
(* unpacking of every route expect.                                        *)
(***************************************************************************)
RouteTables(e) ==
    LET r == get_ddb_tables(e)
    IN  IF r.raised # "" \/ e.ddb_tables = "as_written" THEN r
        ELSE Returned(<<r.value[1], r.value[2]>>)

TeamRequests ==
    {[route |-> "add_team_member", user_id |-> u, team_id |-> t, team_name |-> ""]
        : u \in {"u1", "u2"}, t \in {"A", "B"}}
    \cup {[route |-> "join_team", user_id |-> "u1", team_id |-> t, team_name |-> ""]
        : t \in {"A", "B", "C"}}
    \cup {[route |-> "create_team", user_id |-> "u1", team_id |-> "", team_name |-> n]
        : n \in {"Crew A", "Crew N"}}

Member(team_id, user_id, role) ==
    [teamId |-> team_id, userId |-> user_id, memberRole |-> role]

\* the memberships get_team_membership can return: items[0] of the query on
\* the user index, None when there is none
Memberships(members, user_id) ==
    IF \E m \in members : m.userId = user_id
    THEN {Some(m) : m \in {n \in members : n.userId = user_id}}
    ELSE {None}

\* ConditionExpression attribute_not_exists(teamId) AND
\* attribute_not_exists(userId): the item under the same key must not exist
ConditionFails(members, item) ==
    \E m \in members : m.teamId = item.teamId /\ m.userId = item.userId

InitTeams ==
    /\ pc = "serving"
    /\ \E t \in {"as_written", "pair"}, l \in {"RowlyticsLandmarks", ""},
          ms \in {{}, {Member("A", "u1", "rower")}} :
          env = [boto3 |-> TRUE, users |-> "RowlyticsUsers",
                 members |-> "RowlyticsTeamMembers", landmarks |-> l,
                 ddb_tables |-> t,
                 user_items |-> {"u1"},
                 team_items |-> {[teamId |-> "A", teamName |-> "Crew A"],
                                 [teamId |-> "B", teamName |-> "Crew B"]},
                 member_items |-> ms]
    /\ req \in [1..MaxRequests -> TeamRequests]
    /\ procs = [p \in 1..MaxRequests |->
                   [at |-> "tables", team_id |-> req[p].team_id,
                    status |-> 0]]
    /\ calls = <<>> /\ ret = <<>> /\ err = ""
    /\ ScriptIdle

Respond(p, code) ==
    procs' = [procs EXCEPT ![p].at = "responded", ![p].status = code]

\* lines 158-161, 286-290, 364-368: the tables; the unpacking of a result
\* that is not a pair raises ValueError, which no except clause catches
RequestTables(p) ==
    /\ procs[p].at = "tables"
    /\ LET r == RouteTables(env)
       IN  IF r.raised = "RuntimeError" THEN Respond(p, 500)
           ELSE IF Len(r.value) # 2
           THEN procs' = [procs EXCEPT ![p].at = "raised"]
           ELSE procs' = [procs EXCEPT ![p].at =
                    CASE req[p].route = "add_team_member" -> "get_user"
                      [] req[p].route = "join_team" -> "get_team"
                      [] OTHER -> "membership"]
    /\ UNCHANGED <<script, pc, err, ret, env, calls, req>>

\* add_team_member, lines 163-169
GetUser(p) ==
    /\ procs[p].at = "get_user"
    /\ IF req[p].user_id \notin env.user_items THEN Respond(p, 404)
       ELSE procs' = [procs EXCEPT ![p].at = "membership"]
    /\ UNCHANGED <<script, pc, err, ret, env, calls, req>>

\* join_team, lines 292-294
GetTeam(p) ==
    /\ procs[p].at = "get_team"
    /\ IF \A t \in env.team_items : t.teamId # req[p].team_id THEN Respond(p, 404)
       ELSE procs' = [procs EXCEPT ![p].at = "membership"]
    /\ UNCHANGED <<script, pc, err, ret, env, calls, req>>

\* existing = get_team_membership(team_members_table, user_id) and the
\* branches on it: lines 171-183, 296-318, 370-379
CheckMembership(p) ==
    /\ procs[p].at = "membership"
    /\ \E existing \in Memberships(env.member_items, req[p].user_id) :
          CASE req[p].route = "add_team_member" ->
                  IF existing # None THEN Respond(p, 409)
                  ELSE procs' = [procs EXCEPT ![p].at = "put_member"]
            [] req[p].route = "join_team" ->
                  IF existing # None /\ existing[1].teamId # req[p].team_id
                  THEN Respond(p, 409)
                  ELSE IF existing # None THEN Respond(p, 200)
                  ELSE procs' = [procs EXCEPT ![p].at = "put_member"]
            [] OTHER ->
                  IF existing # None THEN Respond(p, 409)
                  ELSE procs' = [procs EXCEPT ![p].at = "team_name"]
    /\ UNCHANGED <<script, pc, err, ret, env, calls, req>>

\* create_team, lines 381-385
TeamNameExists(p) ==
    /\ procs[p].at = "team_name"
    /\ IF \E t \in env.team_items : t.teamName = req[p].team_name THEN Respond(p, 409)
       ELSE procs' = [procs EXCEPT ![p].at = "put_team"]
    /\ UNCHANGED <<script, pc, err, ret, env, calls, req>>

\* create_team, lines 387-401: team_id = uuid4().hex is a new id
PutTeam(p) ==
    /\ procs[p].at = "put_team"
    /\ \E id \in {"T1", "T2", "T3"} :
          /\ \A t \in env.team_items : t.teamId # id
          /\ env' = [env EXCEPT !.team_items =
                        @ \cup {[teamId |-> id, teamName |-> req[p].team_name]}]
          /\ procs' = [procs EXCEPT ![p].at = "put_member", ![p].team_id = id]
    /\ UNCHANGED <<script, pc, err, ret, calls, req>>

\* the conditional put of the membership: lines 185-205, 320-336, 403-416
PutMember(p) ==
    /\ procs[p].at = "put_member"
    /\ LET item == Member(procs[p].team_id, req[p].user_id,
                          IF req[p].route = "create_team" THEN "coach" ELSE "rower")
       IN  IF ConditionFails(env.member_items, item)
           THEN /\ Respond(p, CASE req[p].route = "add_team_member" -> 409
                                [] req[p].route = "join_team" -> 200
                                [] OTHER -> 500)
                /\ UNCHANGED env
           ELSE /\ env' = [env EXCEPT !.member_items = @ \cup {item}]
                /\ Respond(p, IF req[p].route = "join_team" THEN 200 ELSE 201)
    /\ UNCHANGED <<script, pc, err, ret, calls, req>>

NextTeams ==
    \E p \in 1..MaxRequests :
        \/ RequestTables(p)
        \/ GetUser(p)
        \/ GetTeam(p)
        \/ CheckMembership(p)
        \/ TeamNameExists(p)
        \/ PutTeam(p)
        \/ PutMember(p)

SpecTeams == InitTeams /\ [][NextTeams]_vars

(***************************************************************************)
(* Claims.                                                                 *)
(***************************************************************************)
\* sum of f over a finite set of keypoint names, NaN propagating
RECURSIVE SumOver(_, _)
SumOver(S, f) ==
    IF S = {} THEN Zero
    ELSE LET k == CHOOSE k \in S : TRUE
         IN  RAdd(f[k], SumOver(S \ {k}, f))

\* |pv - s|, infinite when pv is undefined
DistTo(pv, s) == IF IsNaN(pv) THEN Inf ELSE RAbs(RSub(pv, s))

\* ---- C9 ----
\* the multiples i * step of the step that are at most 1
MultiplesUpToOne(step) ==
    {RMul(Rat(i, 1), step) : i \in {j \in 0..step.d : j * step.n <= step.d}}

\* C9: for every step in (0,1] the checkpoint set contains 0 and 1.0, every
\* element lies in [0,1], every element other than 1.0 is a multiple of the
\* step, and every multiple of the step that is at most 1 is in it.
C9_CheckpointSet ==
    (pc = "read") =>
        /\ Zero \in Range(steps)
        /\ One \in Range(steps)
        /\ \A e \in Range(steps) : RLe(Zero, e) /\ RLe(e, One)
        /\ \A e \in Range(steps) :
              e # One => \E i \in 0..(2 * args.step.d) : e = RMul(Rat(i, 1), args.step)
        /\ MultiplesUpToOne(args.step) \subseteq Range(steps)

\* the part of C9 the code keeps: everything but the upper end of the range
C9_ButUpperEnd ==
    (pc = "read") =>
        /\ Zero \in Range(steps)
        /\ One \in Range(steps)
        /\ \A e \in Range(steps) : RLe(Zero, e)
        /\ \A e \in Range(steps) :
              e # One => \E i \in 0..(2 * args.step.d) : e = RMul(Rat(i, 1), args.step)
        /\ MultiplesUpToOne(args.step) \subseteq Range(steps)
        /\ \A e \in Range(steps) :
              RLt(One, e) => 2 * (args.step.d % args.step.n) >= args.step.n

\* ---- C10 ----
\* the configured head keypoints whose confidence at second sec is at least
\* the threshold, read from the long table
Qualifying(df, sec, head_kps, thres) ==
    {k \in Range(head_kps) :
        \E i \in DOMAIN df.rows :
            /\ df.rows[i].second = sec
            /\ df.rows[i].keypoint_name = k
            /\ RLe(thres, df.rows[i].keypoint_confidence)}

\* sum of x * conf over sum of conf, over the keypoints Q at second sec
WeightedMean(df, sec, Q) ==
    LET c  == [k \in Q |-> CellOf(df, sec, k).conf]
        xc == [k \in Q |-> RMul(CellOf(df, sec, k).x, CellOf(df, sec, k).conf)]
    IN  IF RLt(Zero, SumOver(Q, c)) THEN RDiv(SumOver(Q, xc), SumOver(Q, c)) ELSE NaN

\* C10: with conf_weighted_avg, head_x at each second is the sum of x * conf
\* over the sum of conf, taken over exactly the configured head keypoints whose
\* confidence is at least the threshold, and undefined when that sum is zero.
C10_ConfWeightedAvg ==
    (pc = "returned" /\ args.head_method = "conf_weighted_avg") =>
        \A t \in DOMAIN hx1 :
            hx1[t] = WeightedMean(df1, wide1.rows[t].second,
                                  Qualifying(df1, wide1.rows[t].second,
                                             args.head_kps, args.kp_conf))

\* a qualifying keypoint of second sec whose x is undefined
QualifyingWithoutX(df, sec, head_kps, thres) ==
    \E k \in Qualifying(df, sec, head_kps, thres) : IsNaN(CellOf(df, sec, k).x)

\* C10 on the seconds where every qualifying keypoint has an x
C10_WhereXDefined ==
    (pc = "returned" /\ args.head_method = "conf_weighted_avg") =>
        \A t \in DOMAIN hx1 :
            ~QualifyingWithoutX(df1, wide1.rows[t].second, args.head_kps, args.kp_conf)
                => hx1[t] = WeightedMean(df1, wide1.rows[t].second,
                                         Qualifying(df1, wide1.rows[t].second,
                                                    args.head_kps, args.kp_conf))

\* ---- C4 ----
ValidOf(hx) == {hx[i] : i \in {j \in DOMAIN hx : ~IsNaN(hx[j])}}

\* C4: for a head series that is not degenerate, every defined progress lies
\* in [0,1], it is exactly 0 where head_x is the least valid value and exactly
\* 1 where it is the greatest, and it is undefined where head_x is undefined.
C4_ProgressRange ==
    (pc = "returned" /\ pr1.raised = "") =>
        /\ DOMAIN pr1.p = DOMAIN hx1
        /\ \A i \in DOMAIN hx1 :
              /\ IsNaN(hx1[i]) => IsNaN(pr1.p[i])
              /\ ~IsNaN(hx1[i]) => RLe(Zero, pr1.p[i]) /\ RLe(pr1.p[i], One)
              /\ (~IsNaN(hx1[i]) /\ \A v \in ValidOf(hx1) : RLe(hx1[i], v))
                    => pr1.p[i] = Zero
              /\ (~IsNaN(hx1[i]) /\ \A v \in ValidOf(hx1) : RLe(v, hx1[i]))
                    => pr1.p[i] = One

\* a series with an undefined second, its two extremes and a value between
C4_Witness ==
    /\ pc = "returned"
    /\ pr1.raised = ""
    /\ \E i \in DOMAIN hx1 : IsNaN(hx1[i])
    /\ \E i \in DOMAIN pr1.p : RLt(Zero, pr1.p[i]) /\ RLt(pr1.p[i], One)
    /\ \E i \in DOMAIN pr1.p : pr1.p[i] = One /\ hx1[i] # One

\* ---- C2 ----
\* C2: a matched checkpoint s is matched to a second whose |progress - s| is
\* least over all seconds of the source, and among the seconds attaining the
\* least distance to the one of lowest index, which is the lowest second.
C2_NearestFirst ==
    (pc = "returned") =>
        \A s \in Range(steps) :
            chosen1[s] # None =>
                \E j \in DOMAIN pr1.p :
                    /\ chosen1[s] = Some(wide1.rows[j].second)
                    /\ \A k \in DOMAIN pr1.p :
                          RLe(DistTo(pr1.p[j], s), DistTo(pr1.p[k], s))
                    /\ \A k \in DOMAIN pr1.p :
                          k < j => RLt(DistTo(pr1.p[j], s), DistTo(pr1.p[k], s))
                    /\ \A k \in DOMAIN pr1.p :
                          DistTo(pr1.p[k], s) = DistTo(pr1.p[j], s)
                              => wide1.rows[j].second <= wide1.rows[k].second

\* a matched checkpoint with two seconds at the same least distance, on either
\* side of it, and a farther second before them
C2_Witness ==
    /\ pc = "returned"
    /\ \E s \in Range(steps) :
          /\ chosen1[s] # None
          /\ \E j, k \in DOMAIN pr1.p :
                /\ 1 < j /\ j < k
                /\ pr1.p[j] # pr1.p[k]
                /\ DistTo(pr1.p[j], s) = DistTo(pr1.p[k], s)
                /\ RLt(DistTo(pr1.p[j], s), DistTo(pr1.p[1], s))
                /\ chosen1[s] = Some(wide1.rows[j].second)

\* ---- C3 ----
\* C3: a checkpoint is unmatched exactly when every progress value is
\* undefined or the least |progress - s| over the seconds with a defined
\* progress exceeds the tolerance; a second whose progress is undefined is
\* never the chosen one.
C3_UnmatchedExactly ==
    (pc = "returned") =>
        \A s \in Range(steps) :
            LET defined == {k \in DOMAIN pr1.p : ~IsNaN(pr1.p[k])}
            IN  /\ (chosen1[s] = None) <=>
                       \/ defined = {}
                       \/ \A k \in defined :
                             RLt(args.tolerance, RAbs(RSub(pr1.p[k], s)))
                /\ chosen1[s] # None =>
                       \A k \in DOMAIN pr1.p :
                           wide1.rows[k].second = chosen1[s][1] => k \in defined

\* one checkpoint unmatched because all in reach are too far, one matched at
\* exactly the tolerance, and an undefined second first in the series
C3_Witness ==
    /\ pc = "returned"
    /\ Len(pr1.p) >= 2
    /\ IsNaN(pr1.p[1])
    /\ \E s \in Range(steps) : chosen1[s] = None
    /\ \E s \in Range(steps) :
          /\ chosen1[s] # None
          /\ \A k \in DOMAIN pr1.p :
                ~IsNaN(pr1.p[k]) => RLe(args.tolerance, RAbs(RSub(pr1.p[k], s)))
          /\ RLt(Zero, args.tolerance)

(***************************************************************************)
(* Claims about whole runs of main, under Spec.                            *)
(***************************************************************************)
\* the names that occur in both long tables
InBoth ==
    {k \in Range(AlphaOrder) :
        /\ \E i \in DOMAIN df1.rows : df1.rows[i].keypoint_name = k
        /\ \E i \in DOMAIN df2.rows : df2.rows[i].keypoint_name = k}

\* the positions of the rows of checkpoint s in the written file
RowsFor(s) == {i \in DOMAIN out_file[1] : out_file[1][i].progress_step = s}

\* ---- C1 ----
\* C1: the output of a run that succeeds has exactly |checkpoints| x |common
\* keypoints| rows, one for each (checkpoint, keypoint) pair, whether or not
\* the checkpoint was matched in either source.
C1_RowGrid ==
    (pc = "done") =>
        /\ Len(out_file[1]) = Cardinality(Range(steps)) * Cardinality(InBoth)
        /\ \A s \in Range(steps), k \in InBoth :
              Cardinality({i \in RowsFor(s) : out_file[1][i].file1.kp = k}) = 1
        /\ \A i \in DOMAIN out_file[1] :
              /\ out_file[1][i].progress_step \in Range(steps)
              /\ out_file[1][i].file1.kp \in InBoth

\* a finished run with two common keypoints, one checkpoint matched in both
\* sources and one unmatched in the second source only
C1_Witness ==
    /\ pc = "done"
    /\ Cardinality(InBoth) = 2
    /\ Len(out_file[1]) >= 6
    /\ \E s \in Range(steps) : chosen1[s] # None /\ chosen2[s] # None
    /\ \E s \in Range(steps) : chosen1[s] # None /\ chosen2[s] = None

\* ---- C5 ----
\* no defined value, or the greatest defined value equal to the least
NoRange(hx) == \A a \in ValidOf(hx), b \in ValidOf(hx) : a = b

\* every row of a configured head keypoint carries the same x
SameHeadX(df) ==
    \A i, j \in DOMAIN df.rows :
        (df.rows[i].keypoint_name \in Range(args.head_kps)
           /\ df.rows[j].keypoint_name \in Range(args.head_kps))
            => df.rows[i].x = df.rows[j].x

\* C5: progress_between_extremes fails, returning no progress series, when
\* the head series has no defined value or its maximum equals its minimum;
\* a source whose head keypoints have the same x at every second makes the
\* run fail.
C5_DegenerateFails ==
    /\ pc \in {"choose", "kp_names", "rows", "write", "done"} =>
          /\ ~NoRange(hx1) /\ ~NoRange(hx2)
          /\ ~SameHeadX(df1) /\ ~SameHeadX(df2)
    /\ (pc = "failed" /\ err = "no_common_keypoints") =>
          ~NoRange(hx1) /\ ~NoRange(hx2)
    /\ (pc = "failed" /\ err \in {"no_valid_head_x", "range_zero"}) =>
          /\ NoRange(hx1) \/ NoRange(hx2)
          /\ NoRange(hx1) => pr1 = NoProgress
          /\ pr2 = NoProgress
          /\ (err = "no_valid_head_x") <=>
                (ValidOf(hx1) = {} \/ (~NoRange(hx1) /\ ValidOf(hx2) = {}))

\* a run that failed on a second source of several seconds whose head stays
\* at one x
C5_Witness ==
    /\ pc = "failed"
    /\ err = "range_zero"
    /\ ~NoRange(hx1)
    /\ Len(hx2) >= 2
    /\ SameHeadX(df2)

\* ---- C6 ----
\* the fields of one source in a row, against the source's own tables
SideAsMatched(f, df, wide, hx, sec) ==
    IF sec = None
    THEN /\ f.second = None
         /\ IsNaN(f.head_x) /\ IsNaN(f.x) /\ IsNaN(f.y) /\ IsNaN(f.kp_conf)
    ELSE /\ f.second = sec
         /\ \E t \in DOMAIN wide.rows :
               wide.rows[t].second = sec[1] /\ f.head_x = hx[t]
         /\ \A i \in DOMAIN df.rows :
               (df.rows[i].second = sec[1] /\ df.rows[i].keypoint_name = f.kp)
                  => /\ f.x = df.rows[i].x
                     /\ f.y = df.rows[i].y
                     /\ f.kp_conf = df.rows[i].keypoint_confidence
         /\ (~\E i \in DOMAIN df.rows :
                 df.rows[i].second = sec[1] /\ df.rows[i].keypoint_name = f.kp)
               => IsNaN(f.x) /\ IsNaN(f.y) /\ IsNaN(f.kp_conf)

\* C6: when a checkpoint is unmatched in one source, every row of the
\* checkpoint is still emitted, that source's second, head_x, x, y and
\* confidence are missing (not zero), and the other source's fields are those
\* of its own matched second.
C6_UnmatchedSide ==
    (pc = "done") =>
        \A s \in Range(steps) :
            (chosen1[s] = None \/ chosen2[s] = None) =>
                /\ Cardinality(RowsFor(s)) = Cardinality(InBoth)
                /\ \A i \in RowsFor(s) :
                      /\ SideAsMatched(out_file[1][i].file1, df1, wide1, hx1, chosen1[s])
                      /\ SideAsMatched(out_file[1][i].file2, df2, wide2, hx2, chosen2[s])

\* a written row whose first source is unmatched and whose second source
\* carries the coordinates of its matched second
C6_Witness ==
    /\ pc = "done"
    /\ \E i \in DOMAIN out_file[1] :
          /\ chosen1[out_file[1][i].progress_step] = None
          /\ chosen2[out_file[1][i].progress_step] # None
          /\ IsNaN(out_file[1][i].file1.x)
          /\ ~IsNaN(out_file[1][i].file2.x)
          /\ out_file[1][i].file2.second # Some(0)

\* ---- C7 ----
\* C7: the keypoints of the output are exactly those named in both sources; a
\* keypoint of one source only is in no row and is no error; the run fails for
\* want of a common keypoint exactly when there is none, loading and
\* normalization having succeeded.
C7_CommonKeypoints ==
    /\ (pc = "done") =>
          /\ {out_file[1][i].file1.kp : i \in DOMAIN out_file[1]} = InBoth
          /\ \A i \in DOMAIN out_file[1] :
                out_file[1][i].file2.kp = out_file[1][i].file1.kp
    /\ pc \in {"rows", "write", "done"} => InBoth # {} /\ Range(kp_names) = InBoth
    /\ (pc = "failed" /\ err = "no_common_keypoints") =>
          /\ InBoth = {}
          /\ pr1.raised = "" /\ pr1.p # <<>>
          /\ pr2.raised = "" /\ pr2.p # <<>>
    /\ (pc = "failed" /\ InBoth # {}) => err # "no_common_keypoints"

\* a finished run in which each source names a keypoint the other lacks
C7_Witness ==
    /\ pc = "done"
    /\ \E i \in DOMAIN df1.rows : df1.rows[i].keypoint_name \notin InBoth
    /\ \E i \in DOMAIN df2.rows : df2.rows[i].keypoint_name \notin InBoth

\* ---- C8 ----
\* every check of main passes on the inputs
AllChecksPass ==
    /\ args.head_kps # <<>>
    /\ RLt(Zero, args.step) /\ RLe(args.step, One)
    /\ Required \subseteq df1.columns
    /\ Required \subseteq df2.columns
    /\ ~NoRange(hx1) /\ ~NoRange(hx2)
    /\ InBoth # {}

\* C8: a run that ends in a fatal condition never writes the output file; the
\* file is written only after every check of both sources has passed.
C8_NoPartialOutput ==
    /\ (pc = "failed") => out_file = None
    /\ (out_file # None) => pc = "done" /\ err = "" /\ AllChecksPass

\* the last fatal condition of main, reached with nothing written
C8_Witness ==
    /\ pc = "failed"
    /\ err = "no_common_keypoints"
    /\ out_file = None
    /\ steps # <<>>
    /\ chosen1 # <<>>

\* ---- C11 ----
\* the plain mean of x over the keypoints Q at second sec, undefined for no Q
PlainMean(df, sec, Q) ==
    LET x == [k \in Q |-> CellOf(df, sec, k).x]
    IN  IF Q = {} THEN NaN ELSE RDiv(SumOver(Q, x), Rat(Cardinality(Q), 1))

\* the qualifying keypoints of second sec that have an x
QualifyingWithX(df, sec, head_kps, thres) ==
    {k \in Qualifying(df, sec, head_kps, thres) : ~IsNaN(CellOf(df, sec, k).x)}

\* C11 as stated: with simple_avg, head_x at each second is the unweighted
\* mean of x over exactly the configured head keypoints whose confidence is at
\* least the threshold, and undefined when none qualifies.
C11_SimpleAvgAsStated ==
    (pc = "returned" /\ args.head_method = "simple_avg") =>
        \A t \in DOMAIN hx1 :
            hx1[t] = PlainMean(df1, wide1.rows[t].second,
                               Qualifying(df1, wide1.rows[t].second,
                                          args.head_kps, args.kp_conf))

\* C11: with simple_avg, head_x at each second is the unweighted mean of x
\* over exactly the configured head keypoints whose confidence is at least the
\* threshold and whose x is defined, and undefined when there is none.
C11_SimpleAvg ==
    (pc = "returned" /\ args.head_method = "simple_avg") =>
        \A t \in DOMAIN hx1 :
            hx1[t] = PlainMean(df1, wide1.rows[t].second,
                               QualifyingWithX(df1, wide1.rows[t].second,
                                               args.head_kps, args.kp_conf))

\* simple_avg over two qualifying keypoints of different x, and over a
\* configured keypoint left out for its confidence
C11_Witness ==
    /\ pc = "returned"
    /\ args.head_method = "simple_avg"
    /\ args.head_kps = <<"nose", "left_eye", "right_eye">>
    /\ Len(hx1) = 1
    /\ Qualifying(df1, 0, args.head_kps, args.kp_conf) = {"nose", "left_eye"}
    /\ CellOf(df1, 0, "nose").x = Zero
    /\ CellOf(df1, 0, "left_eye").x = One
    /\ hx1[1] = Rat(1, 2)

\* ---- C12 ----
\* C12: with method nose, head_x at each second is the nose's x when the nose's
\* confidence is at least the threshold and undefined otherwise, whatever the
\* configured head keypoints; with no nose in the table every second is undefined.
C12_Nose ==
    (pc = "returned" /\ args.head_method = "nose") =>
        /\ \A t \in DOMAIN hx1 :
              LET c == CellOf(df1, wide1.rows[t].second, "nose")
              IN  hx1[t] = IF RLe(args.kp_conf, c.conf) THEN c.x ELSE NaN
        /\ "nose" \notin KpNamesOf(df1) => \A t \in DOMAIN hx1 : IsNaN(hx1[t])

\* the nose's x taken although the configured list holds left_eye only
C12_Witness ==
    /\ pc = "returned"
    /\ args.head_method = "nose"
    /\ args.head_kps = <<"left_eye">>
    /\ args.kp_conf = Rat(1, 2)
    /\ CellOf(df1, 0, "nose").conf = Rat(1, 2)
    /\ CellOf(df1, 0, "left_eye").x = Zero
    /\ CellOf(df1, 0, "left_eye").conf = One
    /\ hx1 = <<Rat(2, 1)>>

\* ---- C13 ----
\* C13: an unknown method name is rejected before anything is processed: a
\* call of head_x_series raises on every wide table and yields no series, and
\* main stops at its argument parsing, with no output directory created, no
\* input table read and nothing computed.
C13_UnknownMethodFirst ==
    (args.head_method \notin Methods) =>
        /\ pc \in {"start", "failed", "call", "raised"}
        /\ pc = "failed" => err = "argparse"
        /\ out_dir = FALSE
        /\ steps = <<>>
        /\ hx1 = <<>> /\ hx2 = <<>>
        /\ wide2 = NoWide
        /\ pc \in {"start", "failed"} => wide1 = NoWide
        /\ out_file = None

\* main stopped by an unknown method name, given two different tables
C13_Witness ==
    /\ pc = "failed"
    /\ err = "argparse"
    /\ args.head_method = "median"
    /\ out_dir = FALSE
    /\ df1 # df2

\* head_x_series has raised on a table that has a usable nose
C13_WitnessCall ==
    /\ pc = "raised"
    /\ args.head_method = "NOSE"
    /\ RLe(args.kp_conf, CellOf(df1, 0, "nose").conf)
    /\ ~IsNaN(CellOf(df1, 0, "nose").x)

\* ---- C14 ----
\* C14: read_pose_csv fails exactly when at least one of the eight required
\* columns is absent from the table, its error then names exactly the absent
\* required columns, and otherwise it returns the table unchanged.
C14_ReadPoseCsv ==
    (pc # "call") =>
        LET absent == {c \in Required : c \notin df1.columns}
        IN  /\ Cardinality(Required) = 8
            /\ (pc = "raised") <=> (absent # {})
            /\ pc = "raised" =>
                  /\ Range(ret.missing) = absent
                  /\ Len(ret.missing) = Cardinality(absent)
                  /\ ret.df = None
            /\ pc = "returned" => ret.df = Some(df1)

\* two required columns absent and named, next to a column that is not required
C14_Witness ==
    /\ pc = "raised"
    /\ ret.missing = <<"keypoint_name", "x">>
    /\ "frame" \in df1.columns
    /\ df1.rows # <<>>

\* a table with one more column than required, returned as it is
C14_WitnessReturned ==
    /\ pc = "returned"
    /\ df1.columns = Required \cup {"frame"}
    /\ ret.df = Some(df1)
    /\ df1.rows # <<>>

\* ---- C15 ----
\* C15: a table that has all required columns but repeats a (second,
\* keypoint_name) pair is accepted by the loader, and the rest of the run
\* surfaces the problem as undefined or unmatched results and not as a
\* failure of the run.
C15_MalformedSurfaces ==
    (Required \subseteq df1.columns /\ Required \subseteq df2.columns
        /\ (HasDuplicates(df1) \/ HasDuplicates(df2))) =>
        /\ pc = "failed" => err \in {"argparse", "no_head_kps", "bad_step"}
        /\ pc \notin {"start", "read", "failed"} => err = ""

\* the part of C15 the code keeps: the loader accepts the table
C15_LoaderAccepts ==
    (Required \subseteq df1.columns /\ Required \subseteq df2.columns
        /\ (HasDuplicates(df1) \/ HasDuplicates(df2))) =>
        (pc = "failed" => err # "missing_columns")

\* the loader has accepted a table with a repeated pair
C15_Accepted ==
    /\ pc = "wide"
    /\ HasDuplicates(df1)
    /\ ~HasDuplicates(df2)

\* ---- C16 ----
\* the seconds that occur in the long table
SecondsOf(df) == {df.rows[i].second : i \in DOMAIN df.rows}

\* C16: to_wide_per_second returns exactly one row per distinct second of the
\* input, in strictly ascending order of second, with an x, y and confidence
\* cell for every keypoint name that occurs anywhere in the input; a (second,
\* keypoint) pair absent from the input gives undefined cells and no error.
C16_WideRows ==
    /\ (pc # "call" /\ ~HasDuplicates(df1)) => pc = "returned"
    /\ (pc = "returned") =>
          /\ Len(wide1.rows) = Cardinality(SecondsOf(df1))
          /\ {wide1.rows[t].second : t \in DOMAIN wide1.rows} = SecondsOf(df1)
          /\ \A t \in 1..(Len(wide1.rows) - 1) :
                wide1.rows[t].second < wide1.rows[t + 1].second
          /\ \A t \in DOMAIN wide1.rows :
                /\ DOMAIN wide1.rows[t].kp = KpNamesOf(df1)
                /\ \A k \in KpNamesOf(df1) :
                      LET at == {i \in DOMAIN df1.rows :
                                    /\ df1.rows[i].second = wide1.rows[t].second
                                    /\ df1.rows[i].keypoint_name = k}
                          cell == wide1.rows[t].kp[k]
                      IN  IF at = {} THEN cell = [x |-> NaN, y |-> NaN, conf |-> NaN]
                          ELSE \A i \in at :
                                  /\ cell.x = df1.rows[i].x
                                  /\ cell.y = df1.rows[i].y
                                  /\ cell.conf = df1.rows[i].keypoint_confidence

\* three seconds listed out of order, two keypoints, one pair absent
C16_Witness ==
    /\ pc = "returned"
    /\ Len(df1.rows) = 3
    /\ df1.rows[1].second = 3 /\ df1.rows[2].second = 0 /\ df1.rows[3].second = 2
    /\ df1.rows[1].keypoint_name = "left_hip"
    /\ df1.rows[2].keypoint_name = "nose"
    /\ Len(wide1.rows) = 3
    /\ wide1.rows[1].second = 0
    /\ IsNaN(wide1.rows[1].kp["left_hip"].conf)
    /\ wide1.rows[3].kp["left_hip"].conf = Rat(1, 2)

\* ---- C17 ----
\* the tolerances the second run is given
TolerancesIn == {Zero, Rat(1, 8), Rat(1, 4), Rat(1, 2), One}

\* the checkpoints a result matches
MatchedIn(chosen) == {s \in DOMAIN chosen : chosen[s] # None}

\* C17: for a fixed source and checkpoint list and tolerances t1 <= t2, every
\* checkpoint matched under t1 is matched under t2 to the same second, so the
\* number of matched checkpoints never decreases as the tolerance grows.
C17_ToleranceMonotone ==
    (pc = "returned") =>
        \A t2 \in TolerancesIn :
            RLe(args.tolerance, t2) =>
                LET r2 == choose_seconds_for_steps(wide1, pr1.p, steps, t2)
                IN  /\ ~r2.raised
                    /\ \A s \in MatchedIn(chosen1) : r2.chosen[s] = chosen1[s]
                    /\ Cardinality(MatchedIn(chosen1))
                          <= Cardinality(MatchedIn(r2.chosen))

\* a checkpoint matched at tolerance 0 and another that only 1/4 matches
C17_Witness ==
    /\ pc = "returned"
    /\ args.tolerance = Zero
    /\ chosen1[Zero] # None
    /\ chosen1[Rat(1, 2)] = None
    /\ choose_seconds_for_steps(wide1, pr1.p, steps, Rat(1, 4)).chosen[Rat(1, 2)] # None
    /\ choose_seconds_for_steps(wide1, pr1.p, steps, Rat(1, 4)).chosen[Zero] = chosen1[Zero]

\* ---- C18 ----
\* what one source alone determines at each checkpoint: the chosen second,
\* the head x there and the head range, from its own table and the options
AssignmentOf(df, a, stepList) ==
    LET w  == to_wide_per_second(df)
        hx == head_x_series(w, a.head_kps, a.kp_conf, a.head_method).out
        pr == progress_between_extremes(hx)
        ch == choose_seconds_for_steps(w, pr.p, stepList, a.tolerance).chosen
    IN  [s \in Range(stepList) |->
           [second |-> ch[s], head_x |-> HeadXAtSecond(w, hx, ch[s]),
            xmin |-> pr.x_min, xmax |-> pr.x_max]]

\* the same four fields of one side of an output row
AssignmentIn(f) ==
    [second |-> f.second, head_x |-> f.head_x, xmin |-> f.xmin, xmax |-> f.xmax]

\* C18: in every finished run the chosen second, head_x, x_min and x_max of a
\* source at every checkpoint are those its own table and the options
\* determine, so two runs that differ only in the other source's table agree
\* on them.
C18_SourceIndependent ==
    (pc = "done") =>
        LET a1 == AssignmentOf(df1, args, steps)
            a2 == AssignmentOf(df2, args, steps)
        IN  \A i \in DOMAIN out_file[1] :
                /\ AssignmentIn(out_file[1][i].file1) = a1[out_file[1][i].progress_step]
                /\ AssignmentIn(out_file[1][i].file2) = a2[out_file[1][i].progress_step]

\* a finished run on two sources that differ in their range and in the
\* second they match to the last checkpoint
C18_Witness ==
    /\ pc = "done"
    /\ pr1.x_max # pr2.x_max
    /\ chosen1[One] # None
    /\ chosen2[One] # None
    /\ chosen1[One] # chosen2[One]
    /\ \E i \in DOMAIN out_file[1] :
          /\ out_file[1][i].progress_step = One
          /\ out_file[1][i].file1.second # out_file[1][i].file2.second
          /\ out_file[1][i].file1.xmax # out_file[1][i].file2.xmax

\* ---- C19 ----
\* the output main computes from its two tables and its options
OutputOf(d1, d2, a) ==
    LET st  == BuildSteps(a.step)
        w1  == to_wide_per_second(d1)
        w2  == to_wide_per_second(d2)
        h1  == head_x_series(w1, a.head_kps, a.kp_conf, a.head_method).out
        h2  == head_x_series(w2, a.head_kps, a.kp_conf, a.head_method).out
        p1  == progress_between_extremes(h1)
        p2  == progress_between_extremes(h2)
        c1  == choose_seconds_for_steps(w1, p1.p, st, a.tolerance).chosen
        c2  == choose_seconds_for_steps(w2, p2.p, st, a.tolerance).chosen
        kps == {k \in Range(AlphaOrder) : k \in KpNamesOf(d1) /\ k \in KpNamesOf(d2)}
    IN  BuildRows(st, SortedNames(kps), d1, w1, h1, p1, c1, d2, w2, h2, p2, c2)

\* C19: the run is deterministic: whatever order the set of common keypoint
\* names is iterated in, the output written is the one the two tables and the
\* options determine, so two runs on identical inputs write identical
\* outputs; and no step changes the input tables or the options.
C19_Deterministic ==
    /\ [][df1' = df1 /\ df2' = df2 /\ args' = args]_vars
    /\ [](pc = "done" => out_file = Some(OutputOf(df1, df2, args)))

\* a finished run whose set of common keypoint names has two iteration orders
C19_Witness ==
    /\ pc = "done"
    /\ Cardinality(InBoth) = 2
    /\ Cardinality(IterOrders(InBoth)) = 2
    /\ df1 # df2
    /\ Len(out_file[1]) >= 4

\* ---- C20 ----
\* the second the scenario expects at checkpoint s
ScenarioSecond(s) == IF s = Zero THEN 0 ELSE IF s = Rat(1, 2) THEN 5 ELSE 10

\* one side of an output row of the scenario: matched to the expected second,
\* with the x the table has there
ScenarioSide(f, df, s) ==
    /\ f.second = Some(ScenarioSecond(s))
    /\ f.kp = "nose"
    /\ f.x = Rat(ScenarioSecond(s), 1)
    /\ \E i \in DOMAIN df.rows :
          /\ df.rows[i].second = ScenarioSecond(s)
          /\ df.rows[i].x = f.x
          /\ df.rows[i].y = f.y

\* C20: for two nose-only sources with confidence 1.0 whose x rises linearly
\* from 0 to 10 over seconds 0..10, step 0.5 and tolerance 0.01, the
\* checkpoints are 0, 0.5 and 1.0, each is matched in both sources, to
\* seconds 0, 5 and 10, and every row's x is the x of that second.
C20_LinearScenario ==
    (pc = "done") =>
        /\ steps = <<Zero, Rat(1, 2), One>>
        /\ Len(out_file[1]) = 3
        /\ \A i \in 1..3 :
              LET r == out_file[1][i]
              IN  /\ r.progress_step = steps[i]
                  /\ ScenarioSide(r.file1, df1, steps[i])
                  /\ ScenarioSide(r.file2, df2, steps[i])

\* the scenario run to its end with the default method, the two files
\* listing their rows in opposite orders
C20_Witness ==
    /\ pc = "done"
    /\ args.head_method = "conf_weighted_avg"
    /\ df1.rows[1].second = 0
    /\ df2.rows[1].second = 10
    /\ out_file[1][2].file1.second = Some(5)
    /\ out_file[1][2].file2.second = Some(5)
    /\ out_file[1][2].file2.x = Rat(5, 1)

C21_WitnessBelow ==
    /\ pc = "done"
    /\ args.tolerance = Rat(9, 20)
    /\ chosen1[Rat(1, 2)] = None
    /\ chosen1[Rat(2, 5)] # None
    /\ chosen1[Rat(3, 5)] # None

\* ---- C22 ----
\* C22: get_ddb_tables returns the pair (users table, team-members table),
\* and every route that unpacks its result into two names succeeds.
C22_PairOfTables ==
    /\ (pc = "returned") => ret = <<Table(env.users), Table(env.members)>>
    /\ (req.kind = "route" /\ pc # "call") => pc \in {"unpacked", "responded"}

\* what the code keeps: the first two elements are the two tables
C22_FirstTwo ==
    (pc = "returned") =>
        /\ Len(ret) = 3
        /\ ret[1] = Table(env.users)
        /\ ret[2] = Table(env.members)

\* a route stopped by the unpacking of three values into two names
C22_UnpackFails ==
    /\ pc = "raised"
    /\ err = "ValueError"
    /\ req.kind = "route"

\* ---- C23 ----
\* the items of the first n pages, in page order
RECURSIVE ItemsUpTo(_, _)
ItemsUpTo(pages, n) ==
    IF n = 0 THEN <<>> ELSE ItemsUpTo(pages, n - 1) \o pages[n].items

\* C23: query_all and scan_all issue one request per page, each with the
\* LastEvaluatedKey of the response before it as ExclusiveStartKey, stop at
\* the first response without one and return the items of all pages in page
\* order; the call ends, after exactly as many requests as there are pages; a
\* request's exception propagates and nothing is returned.
C23_Pagination ==
    /\ [](/\ Len(calls) <= Len(env)
          /\ \A i \in DOMAIN calls :
                /\ calls[i].op = req.op
                /\ calls[i].ExclusiveStartKey = IF i = 1 THEN None ELSE Some(i - 1)
          /\ \A i \in 1..(Len(calls) - 1) : ~env[i].fail
          /\ pc = "loop" => Len(calls) < Len(env)
          /\ pc = "returned" =>
                /\ Len(calls) = Len(env)
                /\ ret = ItemsUpTo(env, Len(env))
          /\ pc = "raised" =>
                /\ env[Len(calls)].fail
                /\ ret = <<>>)
    /\ <>(pc \in {"returned", "raised"})

\* three pages fetched by scan_all, the middle one empty
C23_Witness ==
    /\ pc = "returned"
    /\ req.op = "scan"
    /\ Len(calls) = 3
    /\ env[2].items = <<>>
    /\ ret = <<11, 12, 31>>

\* query_all stopped by the failure of its second request, with items of the
\* first page in hand
C23_WitnessRaised ==
    /\ pc = "raised"
    /\ req.op = "query"
    /\ Len(calls) = 2
    /\ procs.items # <<>>
    /\ ret = <<>>

\* ---- C24 ----
\* the error the index query of the call ends with: that of the first page
\* for get_team_membership, the first one met for list_team_memberships
QueryErrorOf(e, fn) ==
    IF fn = "get_team_membership" \/ e.query[1].error # NoError
    THEN e.query[1].error
    ELSE IF Len(e.query) = 2 THEN e.query[2].error ELSE NoError

ScansIn(cs) == {i \in DOMAIN cs : cs[i].op = "scan"}

\* C24: when the index query raises a ClientError with code
\* ValidationException or ResourceNotFoundException the function falls back
\* to a scan filtered by userId and returns its result; for any other error
\* no scan is issued and the original error is re-raised; when the query
\* succeeds no scan is issued.
C24_ScanFallback ==
    (pc # "call") =>
        LET qe == QueryErrorOf(env, req.fn)
        IN  /\ calls[1].op = "query"
            /\ qe = NoError => ScansIn(calls) = {} /\ pc = "returned"
            /\ (qe \in {ClientError("ValidationException"),
                        ClientError("ResourceNotFoundException")}) =>
                  /\ ScansIn(calls) # {}
                  /\ \A i \in ScansIn(calls) : calls[i].userId = req.user_id
                  /\ \A i, j \in DOMAIN calls :
                        (calls[i].op = "scan" /\ calls[j].op = "query") => j < i
                  /\ pc = "returned" =>
                        \/ /\ req.fn = "get_team_membership"
                           /\ ret = FirstOrNone(env.scan[1].items)
                        \/ /\ req.fn = "list_team_memberships"
                           /\ ret = FetchAll(env.scan, 1, <<>>).value
                  /\ pc = "raised" => err \in {env.scan[i].error : i \in DOMAIN env.scan}
            /\ (qe \notin {NoError, ClientError("ValidationException"),
                           ClientError("ResourceNotFoundException")}) =>
                  /\ ScansIn(calls) = {}
                  /\ pc = "raised"
                  /\ err = qe

\* the scan's membership returned after the query's ValidationException
C24_Witness ==
    /\ pc = "returned"
    /\ req.fn = "get_team_membership"
    /\ env.query[1].error = ClientError("ValidationException")
    /\ Len(calls) = 2
    /\ calls[2].op = "scan"
    /\ ret = Some([userId |-> "u1", teamId |-> "t1"])

\* an AccessDeniedException of the second query page re-raised without a scan
C24_WitnessReraised ==
    /\ pc = "raised"
    /\ req.fn = "list_team_memberships"
    /\ err = ClientError("AccessDeniedException")
    /\ Len(calls) = 2
    /\ ScansIn(calls) = {}

\* ---- C25 ----
AdminCalls == {i \in DOMAIN calls : calls[i].op = "admin_delete_user"}

TokenCalls == {i \in DOMAIN calls : calls[i].op = "delete_user"}

\* C25: with an access token the token deletion is attempted first and, if
\* it succeeds, admin deletion is never called; admin deletion is attempted
\* only with no token or after the token deletion failed; with the pool id or
\* the username missing RuntimeError is raised without admin deletion; when
\* both deletions fail RuntimeError carries the message of the admin error.
C25_DeleteCognitoUser ==
    (pc # "call" /\ env.boto3) =>
        LET token    == req.access_token # ""
            token_ok == token /\ env.delete_user = ""
            username == IF req.email # "" THEN req.email ELSE req.user_id
        IN  /\ token => calls # <<>> /\ calls[1].op = "delete_user"
                        /\ calls[1].AccessToken = req.access_token
            /\ ~token => TokenCalls = {}
            /\ token_ok => pc = "returned" /\ AdminCalls = {}
            /\ AdminCalls # {} => (~token \/ env.delete_user # "")
            /\ Cardinality(AdminCalls) <= 1 /\ Cardinality(TokenCalls) <= 1
            /\ \A i \in AdminCalls :
                  calls[i].UserPoolId = env.pool_id /\ calls[i].Username = username
            /\ (~token_ok /\ (env.pool_id = "" \/ username = "")) =>
                  /\ pc = "raised"
                  /\ err.cls = "RuntimeError"
                  /\ AdminCalls = {}
            /\ (~token_ok /\ env.pool_id # "" /\ username # "") =>
                  /\ Cardinality(AdminCalls) = 1
                  /\ env.admin_delete_user = "" => pc = "returned"
                  /\ env.admin_delete_user # "" =>
                        /\ pc = "raised"
                        /\ err = [cls |-> "RuntimeError", msg |-> env.admin_delete_user]

\* both deletions failed: the admin error's message is raised
C25_Witness ==
    /\ pc = "raised"
    /\ Len(calls) = 2
    /\ env.delete_user = "token fail"
    /\ err = [cls |-> "RuntimeError", msg |-> "admin fail"]

\* the token deletion failed and the pool id is missing: no admin deletion
C25_WitnessMissing ==
    /\ pc = "raised"
    /\ Len(calls) = 1
    /\ calls[1].op = "delete_user"
    /\ env.pool_id = ""
    /\ err.msg = "Missing Cognito pool id or username"

\* ---- C26 ----
\* the keys of all requests so far, in order
KeysAsked == Flatten([i \in DOMAIN calls |-> calls[i].Keys])

\* C26: for n user ids batch_get_users issues exactly ceil(n/100) batch
\* requests (none for n = 0), each with at most 100 keys and together
\* covering every id exactly once in order, and returns the mapping from
\* userId to user record of every user any batch returned; an exception of a
\* batch propagates and no partial mapping is returned.
C26_BatchGetUsers ==
    LET n == Len(req.user_ids)
    IN  /\ \A i \in DOMAIN calls :
              Len(calls[i].Keys) >= 1 /\ Len(calls[i].Keys) <= 100
        /\ KeysAsked = SubSeq(req.user_ids, 1, Len(KeysAsked))
        /\ Len(calls) <= (n + 99) \div 100
        /\ pc = "returned" =>
              /\ Len(calls) = (n + 99) \div 100
              /\ KeysAsked = req.user_ids
              /\ ret = Some([id \in {k \in 1..n : Known(env.present, k)} |->
                               [userId |-> id]])
        /\ pc = "raised" =>
              /\ ret = None
              /\ Len(calls) = env.fail_at

\* 201 ids: three batches of 100, 100 and 1 keys, every user returned
C26_Witness ==
    /\ pc = "returned"
    /\ Len(req.user_ids) = 201
    /\ Len(calls) = 3
    /\ Len(calls[3].Keys) = 1
    /\ DOMAIN ret[1] = 1..201

\* the second batch failed with the users of the first in hand
C26_WitnessRaised ==
    /\ pc = "raised"
    /\ Len(calls) = 2
    /\ procs.users_by_id # <<>>
    /\ ret = None

(***************************************************************************)
(* C27.  The per-second table the extractor writes has at most one row per *)
(* (second, keypoint_name): a second is stored exactly when one of its     *)
(* frames has an eligible detection, its rows describe the detection with  *)
(* the highest detection confidence in the first such frame (a later frame *)
(* of the second never replaces it), every keypoint name has exactly one   *)
(* row per stored second, and the rows are in ascending order of second.   *)
(***************************************************************************)
FrameSecond(f) == f \div (IF env.fps = 0 THEN 30 ELSE env.fps)

EligibleAt(f, di) ==
    /\ di \in 0..(Len(env.frames[f + 1]) - 1)
    /\ (env.person_only => env.frames[f + 1][di + 1].cls = 0)

HasEligible(f) == \E di \in 0..1 : EligibleAt(f, di)

FirstFrameOf(s) ==
    CHOOSE f \in 0..(MaxFrames - 1) :
        /\ FrameSecond(f) = s /\ HasEligible(f)
        /\ \A g \in 0..(f - 1) : ~(FrameSecond(g) = s /\ HasEligible(g))

C27_OneRowPerSecondAndKeypoint ==
    (pc = "done" /\ env.csv_per_second) =>
        LET written == ret[1]
            seconds == {FrameSecond(f) : f \in {g \in 0..(MaxFrames - 1) : HasEligible(g)}}
        IN  /\ \A i \in 1..(Len(written) - 1) :
                   written[i].second <= written[i + 1].second
            /\ Cardinality({<<written[i].second, written[i].keypoint_name>> :
                                i \in DOMAIN written}) = Len(written)
            /\ {written[i].second : i \in DOMAIN written} = seconds
            /\ \A s \in seconds : \A ki \in DOMAIN COCO_KP_NAMES :
                   \E i \in DOMAIN written :
                       /\ written[i].second = s
                       /\ written[i].keypoint_name = COCO_KP_NAMES[ki]
                       /\ written[i].keypoint_index = ki - 1
                       /\ LET f == FirstFrameOf(s)
                              di == written[i].person_index
                          IN  /\ EligibleAt(f, di)
                              /\ written[i].xy = <<<<f, di>>, ki - 1>>
                              /\ written[i].keypoint_confidence = <<<<f, di>>, ki - 1>>
                              /\ written[i].detection_confidence = env.frames[f + 1][di + 1].conf
                              /\ \A dj \in 0..1 :
                                     EligibleAt(f, dj) =>
                                         env.frames[f + 1][dj + 1].conf
                                             <= env.frames[f + 1][di + 1].conf

\* two frames of second 0 hold a person, the later one with the higher
\* confidence, and second 1 is stored as well: the table has 34 rows
C27_Witness ==
    /\ pc = "done" /\ env.csv_per_second /\ env.fps = 2
    /\ env.frames[1] = <<[cls |-> 0, conf |-> 1]>>
    /\ env.frames[2] = <<[cls |-> 0, conf |-> 2]>>
    /\ Len(env.frames[3]) = 2
    /\ Len(ret[1]) = 2 * Len(COCO_KP_NAMES)
    /\ ret[1][1].detection_confidence = 1

\* the first frame of second 0 holds no eligible detection under
\* --person-only, so the second frame gives the stored person, the second
\* of its two detections
C27_WitnessLaterFrame ==
    /\ pc = "done" /\ env.csv_per_second /\ env.person_only /\ env.fps = 2
    /\ env.frames[1] = <<[cls |-> 1, conf |-> 2]>>
    /\ env.frames[2] = <<[cls |-> 0, conf |-> 1], [cls |-> 0, conf |-> 2]>>
    /\ ret[1][1].xy = <<<<1, 1>>, 0>>

(***************************************************************************)
(* C28.  Once both progress computations succeed and the tolerance is at   *)
(* least 0, checkpoints 0.0 and 1.0 are matched in both sources: 0.0 to    *)
(* the lowest second whose head_x equals x_min, 1.0 to the lowest second   *)
(* whose head_x equals x_max, for every tolerance and step.                *)
(***************************************************************************)
LowestSecondAt(wide, hx, x) ==
    LET at == {wide.rows[i].second : i \in {j \in DOMAIN hx : hx[j] = x}}
    IN  CHOOSE sec \in at : \A other \in at : sec <= other

ExtremesMatched(wide, hx, pr, chosen) ==
    /\ Zero \in DOMAIN chosen /\ One \in DOMAIN chosen
    /\ chosen[Zero] = Some(LowestSecondAt(wide, hx, pr.x_min))
    /\ chosen[One] = Some(LowestSecondAt(wide, hx, pr.x_max))

C28_ExtremesMatched ==
    (pc = "kp_names" /\ RLe(Zero, args.tolerance)) =>
        /\ ExtremesMatched(wide1, hx1, pr1, chosen1)
        /\ ExtremesMatched(wide2, hx2, pr2, chosen2)

\* tolerance 0, step 0.6, the greatest x before the least: source 1 has its
\* least x at seconds 2 and 4, source 2 its least at seconds 2 and 4 and its
\* greatest at seconds 0 and 3, with a second without head_x in between
C28_Witness ==
    /\ pc = "kp_names"
    /\ args.tolerance = Zero /\ args.step = Rat(3, 5)
    /\ hx1 = <<Rat(2, 1), Zero, Zero>>
    /\ wide1.rows[2].second = 2
    /\ chosen1[Zero] = Some(2) /\ chosen1[One] = Some(0)
    /\ hx2 = <<Rat(2, 1), NaN, Zero, Rat(2, 1), Zero>>
    /\ chosen2[Zero] = Some(2) /\ chosen2[One] = Some(0)

(***************************************************************************)
(* C29.  With conf_weighted_avg and simple_avg, a defined head_x at a      *)
(* second lies between the least and the greatest x of the head keypoints  *)
(* that qualify at that second (confidence at least the threshold), also   *)
(* when a qualifying keypoint has a confidence but no x.                   *)
(***************************************************************************)
QualifyingXs(df, sec, head_kps, thres) ==
    {CellOf(df, sec, k).x :
        k \in {q \in Qualifying(df, sec, head_kps, thres) : ~IsNaN(CellOf(df, sec, q).x)}}

C29_HeadXWithinQualifying ==
    (pc = "returned" /\ args.head_method \in {"conf_weighted_avg", "simple_avg"}) =>
        \A t \in DOMAIN hx1 :
            ~IsNaN(hx1[t]) =>
                LET xs == QualifyingXs(df1, wide1.rows[t].second,
                                       args.head_kps, args.kp_conf)
                IN  /\ xs # {}
                    /\ \E lo \in xs : RLe(lo, hx1[t])
                    /\ \E hi \in xs : RLe(hx1[t], hi)

\* C29 for simple_avg alone, where it holds
C29_SimpleAvgWithin ==
    (args.head_method = "simple_avg") => C29_HeadXWithinQualifying

C30_RaceReached ==
    /\ \A p \in 1..2 : procs[p].at = "responded" /\ procs[p].status \in {200, 201}
    /\ req[1].user_id = req[2].user_id
    /\ procs[1].team_id # procs[2].team_id
    /\ Cardinality(env.member_items) = 2

\* with get_ddb_tables as written no request gets to the membership check
C30_AsWrittenNoCheck ==
    env.ddb_tables = "as_written" =>
        \A p \in 1..MaxRequests : procs[p].at \in {"tables", "raised", "responded"}

====
